---- MODULE Spec2Model ----
(***************************************************************************)
(* Skill-tree progression core of the-awakening: the node catalog and its *)
(* adjacency index (treeData), the session store (SkillTreeStore), the    *)
(* stat compositor (recomputeStats) and the build codec (BuildCode).      *)
(*                                                                         *)
(* Numbers: a stat is a JavaScript number, an IEEE 754 double.  A double  *)
(* is kept as the integer it is in units of 2^-60, written in limbs of 15  *)
(* bits; sums and products are rounded as the machine rounds them (to 53   *)
(* significant bits, to nearest, ties to even).  This is exact for the     *)
(* doubles from 2^-7 up to 2^15, which holds every stat of the catalog.    *)
(* The catalog writes every effect value with at most two decimals; the    *)
(* model keeps the literal in hundredths (0.08 is 8).                      *)
(* Strings that the codec inspects character by character are sequences   *)
(* of one-character strings.                                               *)
(***************************************************************************)
EXTENDS Integers, Sequences, FiniteSets, TLC

(***************************************************************************)
(* treeData: the node catalog                                              *)
(***************************************************************************)
ALL_NODES ==
  <<
     [id |-> "start", tier |-> "start", cost |-> 0,
      effects |-> <<>>,
      behaviors |-> <<>>,
      connections |-> <<"rf_entry", "hs_entry", "bw_entry", "wp_entry", "ch_entry", "co_entry">>],
     [id |-> "rf_entry", tier |-> "small", cost |-> 1,
      effects |-> <<[stat |-> "fireRateBonus", value |-> 8]>>,
      behaviors |-> <<>>,
      connections |-> <<"rf_s1", "rf_s2">>],
     [id |-> "rf_s1", tier |-> "small", cost |-> 1,
      effects |-> <<[stat |-> "fireRateBonus", value |-> 6]>>,
      behaviors |-> <<>>,
      connections |-> <<"rf_n1">>],
     [id |-> "rf_s2", tier |-> "small", cost |-> 1,
      effects |-> <<[stat |-> "fireRateBonus", value |-> 5], [stat |-> "rangeBonus", value |-> 5]>>,
      behaviors |-> <<>>,
      connections |-> <<"rf_n1", "x_rf_hs">>],
     [id |-> "rf_n1", tier |-> "notable", cost |-> 2,
      effects |-> <<[stat |-> "fireRateBonus", value |-> 20]>>,
      behaviors |-> <<"THERMAL_ACCELERATION">>,
      connections |-> <<"rf_s3", "rf_s4">>],
     [id |-> "rf_s3", tier |-> "small", cost |-> 1,
      effects |-> <<[stat |-> "fireRateBonus", value |-> 8]>>,
      behaviors |-> <<>>,
      connections |-> <<"rf_key">>],
     [id |-> "rf_s4", tier |-> "small", cost |-> 1,
      effects |-> <<[stat |-> "fireRateBonus", value |-> 6], [stat |-> "speedBonus", value |-> 5]>>,
      behaviors |-> <<>>,
      connections |-> <<"rf_key">>],
     [id |-> "rf_key", tier |-> "keystone", cost |-> 3,
      effects |-> <<[stat |-> "fireRateMultiplier", value |-> 350], [stat |-> "damageMultiplier", value |-> 60]>>,
      behaviors |-> <<"BEAM_MODE", "SWEEPING">>,
      connections |-> <<>>],
     [id |-> "hs_entry", tier |-> "small", cost |-> 1,
      effects |-> <<[stat |-> "damageBonus", value |-> 8]>>,
      behaviors |-> <<>>,
      connections |-> <<"hs_s1", "hs_s2">>],
     [id |-> "hs_s1", tier |-> "small", cost |-> 1,
      effects |-> <<[stat |-> "damageBonus", value |-> 6]>>,
      behaviors |-> <<>>,
      connections |-> <<"hs_n1", "x_rf_hs">>],
     [id |-> "hs_s2", tier |-> "small", cost |-> 1,
      effects |-> <<[stat |-> "damageBonus", value |-> 5], [stat |-> "speedBonus", value |-> 5]>>,
      behaviors |-> <<>>,
      connections |-> <<"hs_n1", "x_hs_bw">>],
     [id |-> "hs_n1", tier |-> "notable", cost |-> 2,
      effects |-> <<[stat |-> "damageBonus", value |-> 20]>>,
      behaviors |-> <<"KNOCKBACK">>,
      connections |-> <<"hs_s3", "hs_s4">>],
     [id |-> "hs_s3", tier |-> "small", cost |-> 1,
      effects |-> <<[stat |-> "damageBonus", value |-> 8]>>,
      behaviors |-> <<>>,
      connections |-> <<"hs_key">>],
     [id |-> "hs_s4", tier |-> "small", cost |-> 1,
      effects |-> <<[stat |-> "damageBonus", value |-> 5], [stat |-> "rangeBonus", value |-> 6]>>,
      behaviors |-> <<>>,
      connections |-> <<"hs_key">>],
     [id |-> "hs_key", tier |-> "keystone", cost |-> 3,
      effects |-> <<[stat |-> "damageMultiplier", value |-> 250], [stat |-> "fireRateMultiplier", value |-> 50]>>,
      behaviors |-> <<"DELAYED_EXPLOSION", "KNOCKBACK">>,
      connections |-> <<>>],
     [id |-> "bw_entry", tier |-> "small", cost |-> 1,
      effects |-> <<[stat |-> "maxHPBonus", value |-> 10]>>,
      behaviors |-> <<>>,
      connections |-> <<"bw_s1", "bw_s2">>],
     [id |-> "bw_s1", tier |-> "small", cost |-> 1,
      effects |-> <<[stat |-> "maxHPBonus", value |-> 8]>>,
      behaviors |-> <<>>,
      connections |-> <<"bw_n1", "x_hs_bw">>],
     [id |-> "bw_s2", tier |-> "small", cost |-> 1,
      effects |-> <<[stat |-> "maxHPBonus", value |-> 6], [stat |-> "armorFlat", value |-> 4]>>,
      behaviors |-> <<>>,
      connections |-> <<"bw_n1", "x_bw_wp">>],
     [id |-> "bw_n1", tier |-> "notable", cost |-> 2,
      effects |-> <<[stat |-> "maxHPBonus", value |-> 22]>>,
      behaviors |-> <<"AURA_DAMAGE">>,
      connections |-> <<"bw_s3", "bw_s4">>],
     [id |-> "bw_s3", tier |-> "small", cost |-> 1,
      effects |-> <<[stat |-> "maxHPBonus", value |-> 10]>>,
      behaviors |-> <<>>,
      connections |-> <<"bw_key">>],
     [id |-> "bw_s4", tier |-> "small", cost |-> 1,
      effects |-> <<[stat |-> "maxHPBonus", value |-> 6], [stat |-> "armorFlat", value |-> 8]>>,
      behaviors |-> <<>>,
      connections |-> <<"bw_key">>],
     [id |-> "bw_key", tier |-> "keystone", cost |-> 3,
      effects |-> <<[stat |-> "maxHPMultiplier", value |-> 200], [stat |-> "damageTakenMultiplier", value |-> 75]>>,
      behaviors |-> <<"AURA_DAMAGE", "SCALES_WITH_HP">>,
      connections |-> <<>>],
     [id |-> "wp_entry", tier |-> "small", cost |-> 1,
      effects |-> <<[stat |-> "rangeBonus", value |-> 10]>>,
      behaviors |-> <<>>,
      connections |-> <<"wp_s1", "wp_s2">>],
     [id |-> "wp_s1", tier |-> "small", cost |-> 1,
      effects |-> <<[stat |-> "rangeBonus", value |-> 8]>>,
      behaviors |-> <<>>,
      connections |-> <<"wp_n1", "x_bw_wp">>],
     [id |-> "wp_s2", tier |-> "small", cost |-> 1,
      effects |-> <<[stat |-> "rangeBonus", value |-> 6], [stat |-> "speedBonus", value |-> 6]>>,
      behaviors |-> <<>>,
      connections |-> <<"wp_n1", "x_wp_ch">>],
     [id |-> "wp_n1", tier |-> "notable", cost |-> 2,
      effects |-> <<[stat |-> "rangeBonus", value |-> 20]>>,
      behaviors |-> <<"BOOMERANG">>,
      connections |-> <<"wp_s3", "wp_s4">>],
     [id |-> "wp_s3", tier |-> "small", cost |-> 1,
      effects |-> <<[stat |-> "speedBonus", value |-> 10]>>,
      behaviors |-> <<>>,
      connections |-> <<"wp_key">>],
     [id |-> "wp_s4", tier |-> "small", cost |-> 1,
      effects |-> <<[stat |-> "rangeBonus", value |-> 8], [stat |-> "speedBonus", value |-> 6]>>,
      behaviors |-> <<>>,
      connections |-> <<"wp_key">>],
     [id |-> "wp_key", tier |-> "keystone", cost |-> 3,
      effects |-> <<>>,
      behaviors |-> <<"SPAWN_BLACKHOLE", "MAGNETIC_PULL">>,
      connections |-> <<>>],
     [id |-> "ch_entry", tier |-> "small", cost |-> 1,
      effects |-> <<[stat |-> "multishotAdd", value |-> 100]>>,
      behaviors |-> <<>>,
      connections |-> <<"ch_s1", "ch_s2">>],
     [id |-> "ch_s1", tier |-> "small", cost |-> 1,
      effects |-> <<[stat |-> "fireRateBonus", value |-> 6]>>,
      behaviors |-> <<>>,
      connections |-> <<"ch_n1", "x_wp_ch">>],
     [id |-> "ch_s2", tier |-> "small", cost |-> 1,
      effects |-> <<[stat |-> "damageBonus", value |-> 8]>>,
      behaviors |-> <<>>,
      connections |-> <<"ch_n1", "x_ch_co">>],
     [id |-> "ch_n1", tier |-> "notable", cost |-> 2,
      effects |-> <<[stat |-> "multishotAdd", value |-> 100], [stat |-> "damageBonus", value |-> 12]>>,
      behaviors |-> <<"SEEKER">>,
      connections |-> <<"ch_s3", "ch_s4">>],
     [id |-> "ch_s3", tier |-> "small", cost |-> 1,
      effects |-> <<[stat |-> "fireRateBonus", value |-> 8]>>,
      behaviors |-> <<>>,
      connections |-> <<"ch_key">>],
     [id |-> "ch_s4", tier |-> "small", cost |-> 1,
      effects |-> <<[stat |-> "multishotAdd", value |-> 100]>>,
      behaviors |-> <<>>,
      connections |-> <<"ch_key">>],
     [id |-> "ch_key", tier |-> "keystone", cost |-> 3,
      effects |-> <<[stat |-> "damageMultiplier", value |-> 150]>>,
      behaviors |-> <<"CHAIN_LIGHTNING", "SMART_TARGETING">>,
      connections |-> <<>>],
     [id |-> "co_entry", tier |-> "small", cost |-> 1,
      effects |-> <<[stat |-> "scoreBonus", value |-> 20]>>,
      behaviors |-> <<>>,
      connections |-> <<"co_s1", "co_s2">>],
     [id |-> "co_s1", tier |-> "small", cost |-> 1,
      effects |-> <<[stat |-> "scoreBonus", value |-> 15]>>,
      behaviors |-> <<>>,
      connections |-> <<"co_n1", "x_ch_co">>],
     [id |-> "co_s2", tier |-> "small", cost |-> 1,
      effects |-> <<[stat |-> "scoreBonus", value |-> 15], [stat |-> "fireRateBonus", value |-> 5]>>,
      behaviors |-> <<>>,
      connections |-> <<"co_n1", "x_co_rf">>],
     [id |-> "co_n1", tier |-> "notable", cost |-> 2,
      effects |-> <<[stat |-> "scoreBonus", value |-> 35], [stat |-> "bonusSPPerWave", value |-> 100]>>,
      behaviors |-> <<"KINETIC_HARVEST">>,
      connections |-> <<"co_s3", "co_s4">>],
     [id |-> "co_s3", tier |-> "small", cost |-> 1,
      effects |-> <<[stat |-> "scoreBonus", value |-> 20]>>,
      behaviors |-> <<>>,
      connections |-> <<"co_key">>],
     [id |-> "co_s4", tier |-> "small", cost |-> 1,
      effects |-> <<[stat |-> "scoreBonus", value |-> 15], [stat |-> "rangeBonus", value |-> 8]>>,
      behaviors |-> <<>>,
      connections |-> <<"co_key">>],
     [id |-> "co_key", tier |-> "keystone", cost |-> 3,
      effects |-> <<[stat |-> "scoreMultiplier", value |-> 200]>>,
      behaviors |-> <<"DAMAGE_SCALES_WITH_SCORE", "ORBITAL_DRONES">>,
      connections |-> <<>>],
     [id |-> "x_rf_hs", tier |-> "small", cost |-> 1,
      effects |-> <<[stat |-> "fireRateBonus", value |-> 6], [stat |-> "damageBonus", value |-> 5]>>,
      behaviors |-> <<>>,
      connections |-> <<"rf_s2", "hs_s1">>],
     [id |-> "x_hs_bw", tier |-> "small", cost |-> 1,
      effects |-> <<[stat |-> "damageBonus", value |-> 6], [stat |-> "maxHPBonus", value |-> 8]>>,
      behaviors |-> <<>>,
      connections |-> <<"hs_s2", "bw_s1">>],
     [id |-> "x_bw_wp", tier |-> "small", cost |-> 1,
      effects |-> <<[stat |-> "maxHPBonus", value |-> 8], [stat |-> "rangeBonus", value |-> 6]>>,
      behaviors |-> <<>>,
      connections |-> <<"bw_s2", "wp_s1">>],
     [id |-> "x_wp_ch", tier |-> "small", cost |-> 1,
      effects |-> <<[stat |-> "rangeBonus", value |-> 6], [stat |-> "speedBonus", value |-> 6]>>,
      behaviors |-> <<>>,
      connections |-> <<"wp_s2", "ch_s1">>],
     [id |-> "x_ch_co", tier |-> "small", cost |-> 1,
      effects |-> <<[stat |-> "scoreBonus", value |-> 15], [stat |-> "fireRateBonus", value |-> 6]>>,
      behaviors |-> <<>>,
      connections |-> <<"ch_s2", "co_s1">>],
     [id |-> "x_co_rf", tier |-> "small", cost |-> 1,
      effects |-> <<[stat |-> "scoreBonus", value |-> 15], [stat |-> "fireRateBonus", value |-> 6]>>,
      behaviors |-> <<>>,
      connections |-> <<"co_s2", "rf_s1">>]
  >>

\* The identifiers of the catalog, in catalog order (BuildCode.ts NODE_IDS).
NODE_IDS == [i \in 1..Len(ALL_NODES) |-> ALL_NODES[i].id]

CatalogIds == {NODE_IDS[i] : i \in 1..Len(NODE_IDS)}

\* new Map(ALL_NODES.map(n => [n.id, n])): a later entry with the same id wins.
NODE_MAP ==
  [id \in CatalogIds |->
     ALL_NODES[CHOOSE i \in 1..Len(ALL_NODES) :
                 /\ ALL_NODES[i].id = id
                 /\ \A j \in 1..Len(ALL_NODES) : ALL_NODES[j].id = id => j <= i]]

\* TRUE, and v has been evaluated once this is: it orders the two halves of
\* a loop that is split in the middle (TLC evaluates arguments only on use).
Evaluated(v) == v = v

\* Map.get / Map.has on a map modelled as a function.
Has(map, key) == key \in DOMAIN map

\* Map.set
Set(map, key, val) ==
  [k \in DOMAIN map \cup {key} |-> IF k = key THEN val ELSE map[k]]

\* The inner loop of buildAdjacency without its last statement: conn becomes
\* a neighbour of id, id does not become one of conn.
RECURSIVE AddConnectionsOneWay(_, _, _, _)
AddConnectionsOneWay(adj, id, conns, i) ==
  IF i > Len(conns) THEN adj
  ELSE LET conn == conns[i]
           a1 == [adj EXCEPT ![id] = @ \cup {conn}]
           a2 == IF Has(a1, conn) THEN a1 ELSE Set(a1, conn, {})
       IN  AddConnectionsOneWay(a2, id, conns, i + 1)

\* adj.get(id)!.add(conn); if (!adj.has(conn)) adj.set(conn, new Set());
\* adj.get(conn)!.add(id), for the connections of one node from index i on.
RECURSIVE AddConnections(_, _, _, _)
AddConnections(adj, id, conns, i) ==
  IF i > Len(conns) THEN adj
  ELSE LET conn == conns[i]
           a1 == [adj EXCEPT ![id] = @ \cup {conn}]
           a2 == IF Has(a1, conn) THEN a1 ELSE Set(a1, conn, {})
           a3 == [a2 EXCEPT ![conn] = @ \cup {id}]
       IN  AddConnections(a3, id, conns, i + 1)

\* One iteration of the outer loop of buildAdjacency: node k of ALL_NODES.
AddNode(adj, k) ==
  LET node == ALL_NODES[k]
      a0   == IF Has(adj, node.id) THEN adj ELSE Set(adj, node.id, {})
  IN  AddConnections(a0, node.id, node.connections, 1)

\* for (const node of ALL_NODES), iterations lo..hi in order.
RECURSIVE AddNodes(_, _, _)
AddNodes(adj, lo, hi) ==
  IF lo > hi THEN adj
  ELSE IF lo = hi THEN AddNode(adj, lo)
  ELSE LET mid   == (lo + hi) \div 2
           first == AddNodes(adj, lo, mid)
       IN  IF Evaluated(first) THEN AddNodes(first, mid + 1, hi) ELSE first

\* Bidirectional adjacency map, rebuilt from the catalog on every call.
buildAdjacency == AddNodes([x \in {} |-> {}], 1, Len(ALL_NODES))

(***************************************************************************)
(* Numbers: the arithmetic of doubles                                      *)
(***************************************************************************)

\* 1 << k
Pow2(k) == 2 ^ k

\* 2^15: a number is a sequence of limbs, the least significant first.
LIMB == 32768
\* The limbs below the unit: a value v is the integer v * 2^60.
UNIT_LIMBS == 4
\* The limbs of a value.
VALUE_LIMBS == 5
\* The significant bits of a double.
SIGNIFICAND == 53

\* The limbs of the number whose digits (each below 2^30) are given: the
\* carries are passed upwards, the last one into limbs of its own.
RECURSIVE Carried(_, _, _)
Carried(digits, i, carry) ==
  IF i > Len(digits)
  THEN IF carry = 0 THEN <<>> ELSE <<carry % LIMB>> \o Carried(digits, i, carry \div LIMB)
  ELSE LET d == digits[i] + carry
       IN  <<d % LIMB>> \o Carried(digits, i + 1, d \div LIMB)

LimbAt(n, i) == IF i <= Len(n) THEN n[i] ELSE 0

Widen(n, len) == [i \in 1..len |-> LimbAt(n, i)]

BigAdd(a, b) ==
  LET len == IF Len(a) >= Len(b) THEN Len(a) ELSE Len(b)
  IN  Carried([i \in 1..len |-> LimbAt(a, i) + LimbAt(b, i)], 1, 0)

\* a times one limb, shifted up by shift limbs.
BigMulLimb(a, limb, shift) ==
  [i \in 1..shift |-> 0] \o Carried([i \in 1..Len(a) |-> a[i] * limb], 1, 0)

RECURSIVE BigMulFrom(_, _, _)
BigMulFrom(a, b, j) ==
  IF j > Len(b) THEN <<>>
  ELSE BigAdd(BigMulLimb(a, b[j], j - 1), BigMulFrom(a, b, j + 1))

BigMul(a, b) == BigMulFrom(a, b, 1)

\* The number of bits of a limb, and of a number.
BitsOfLimb(l) == CHOOSE k \in 0..15 : l < Pow2(k) /\ (k = 0 \/ l >= Pow2(k - 1))

TopLimb(n) ==
  IF \E i \in 1..Len(n) : n[i] # 0
  THEN CHOOSE i \in 1..Len(n) : n[i] # 0 /\ \A j \in (i + 1)..Len(n) : n[j] = 0
  ELSE 0

BitLength(n) ==
  LET t == TopLimb(n)
  IN  IF t = 0 THEN 0 ELSE 15 * (t - 1) + BitsOfLimb(n[t])

\* Bit p of n (bit 0 is the least significant) and whether a bit below p is set.
BitAt(n, p) == (LimbAt(n, (p \div 15) + 1) \div Pow2(p % 15)) % 2

AnyBitBelow(n, p) ==
  \/ \E i \in 1..(p \div 15) : LimbAt(n, i) # 0
  \/ LimbAt(n, (p \div 15) + 1) % Pow2(p % 15) # 0

\* n with the bits below p cleared, and 2^p added if up.
Rounded(n, p, up) ==
  LET w == (p \div 15) + 1
      len == IF Len(n) >= w THEN Len(n) ELSE w
  IN  Carried([i \in 1..len |->
                 IF i < w THEN 0
                 ELSE IF i = w
                   THEN LimbAt(n, i) - (LimbAt(n, i) % Pow2(p % 15))
                        + (IF up THEN Pow2(p % 15) ELSE 0)
                 ELSE LimbAt(n, i)], 1, 0)

\* Round to nearest, ties to even, at bit p; sticky tells that the exact
\* value has more below the last bit of n.
RoundAt(n, p, sticky) ==
  IF p <= 0 THEN n
  ELSE LET guard == BitAt(n, p - 1) = 1
           rest  == sticky \/ AnyBitBelow(n, p - 1)
           odd   == BitAt(n, p) = 1
       IN  Rounded(n, p, guard /\ (rest \/ odd))

\* The double nearest to the number: 53 significant bits are kept; no bit
\* below bit floor is (the unit of the representation).
RoundToDouble(n, floor, sticky) ==
  LET p == BitLength(n) - SIGNIFICAND
  IN  RoundAt(n, IF p > floor THEN p ELSE floor, sticky)

DropLimbs(n, k) == Widen(SubSeq(n, k + 1, Len(n)), VALUE_LIMBS)

\* a + b and a * b of two doubles.
FAdd(a, b) == Widen(RoundToDouble(BigAdd(a, b), 0, FALSE), VALUE_LIMBS)

FMul(a, b) ==
  DropLimbs(RoundToDouble(BigMul(a, b), 15 * UNIT_LIMBS, FALSE), UNIT_LIMBS)

\* n divided by the small number d, from limb i downwards: quotient and rest.
RECURSIVE DivSmall(_, _, _, _)
DivSmall(n, d, i, rest) ==
  IF i = 0 THEN [quotient |-> <<>>, rest |-> rest]
  ELSE LET cur  == rest * LIMB + n[i]
           low  == DivSmall(n, d, i - 1, cur % d)
       IN  [quotient |-> low.quotient \o <<cur \div d>>, rest |-> low.rest]

\* The double a decimal literal with two decimals denotes, given in
\* hundredths: h / 100 rounded to nearest.
FromHundredths(h) ==
  LET num == [i \in 1..(UNIT_LIMBS + 2) |-> IF i = UNIT_LIMBS + 2 THEN h ELSE 0]
      q   == DivSmall(num, 100, Len(num), 0)
  IN  DropLimbs(RoundToDouble(q.quotient, 15, q.rest # 0), 1)

RECURSIVE FLessFrom(_, _, _)
FLessFrom(a, b, i) ==
  IF i = 0 THEN FALSE
  ELSE IF a[i] # b[i] THEN a[i] < b[i]
  ELSE FLessFrom(a, b, i - 1)

\* a < b
FLess(a, b) == FLessFrom(a, b, VALUE_LIMBS)

\* Math.max, which the clamp does not use.
FMax(a, b) == IF FLess(a, b) THEN b ELSE a

\* Math.min
FMin(a, b) == IF FLess(b, a) THEN b ELSE a

(***************************************************************************)
(* types / SkillTreeStore: the stat compositor                             *)
(***************************************************************************)

\* The literals of the stats, in hundredths: the effect values of the
\* catalog, 0, 1 and 0.85, and the 1.01 of a collectible.
Literals ==
  {0, 85, 100, 101} \cup
  UNION {{ALL_NODES[i].effects[j].value : j \in 1..Len(ALL_NODES[i].effects)} :
           i \in 1..Len(ALL_NODES)}

\* The double each literal denotes.
DOUBLE == [h \in Literals |-> FromHundredths(h)]

\* Always a fresh ComputedStats with the defaults: additive pools 0,
\* multiplicative pools 1, no behaviour.
createDefaultStats ==
  [fireRateBonus |-> DOUBLE[0], damageBonus |-> DOUBLE[0],
   speedBonus |-> DOUBLE[0], rangeBonus |-> DOUBLE[0],
   maxHPBonus |-> DOUBLE[0], armorFlat |-> DOUBLE[0],
   scoreBonus |-> DOUBLE[0], bonusSPPerWave |-> DOUBLE[0],
   multishotAdd |-> DOUBLE[0],
   fireRateMultiplier |-> DOUBLE[100], damageMultiplier |-> DOUBLE[100],
   maxHPMultiplier |-> DOUBLE[100], damageTakenMultiplier |-> DOUBLE[100],
   scoreMultiplier |-> DOUBLE[100],
   behaviors |-> {}]

\* The stats accumulated by multiplication; every other stat is summed.
MULTIPLICATIVE ==
  {"fireRateMultiplier", "damageMultiplier", "maxHPMultiplier",
   "damageTakenMultiplier", "scoreMultiplier"}

\* s[effect.stat] *= effect.value or s[effect.stat] += effect.value
ApplyEffect(s, effect) ==
  IF effect.stat \in MULTIPLICATIVE
  THEN [s EXCEPT ![effect.stat] = FMul(@, DOUBLE[effect.value])]
  ELSE [s EXCEPT ![effect.stat] = FAdd(@, DOUBLE[effect.value])]

\* for (const effect of node.effects), from index i on.
RECURSIVE ApplyEffects(_, _, _)
ApplyEffects(s, effects, i) ==
  IF i > Len(effects) THEN s
  ELSE ApplyEffects(ApplyEffect(s, effects[i]), effects, i + 1)

\* for (const b of node.behaviors) s.behaviors.add(b), from index i on
\* (a node without behaviors has the empty list here).
RECURSIVE AddBehaviors(_, _, _)
AddBehaviors(s, behaviors, i) ==
  IF i > Len(behaviors) THEN s
  ELSE AddBehaviors([s EXCEPT !.behaviors = @ \cup {behaviors[i]}],
                    behaviors, i + 1)

\* The body of the loop of recomputeStats for one active id: an id that is
\* not in NODE_MAP is skipped.
ApplyNode(s, id) ==
  IF ~Has(NODE_MAP, id) THEN s
  ELSE LET node == NODE_MAP[id]
       IN  AddBehaviors(ApplyEffects(s, node.effects, 1), node.behaviors, 1)

\* for (const id of order), iterations lo..hi in order.
RECURSIVE ApplyNodes(_, _, _, _)
ApplyNodes(s, order, lo, hi) ==
  IF lo > hi THEN s
  ELSE IF lo = hi THEN ApplyNode(s, order[lo])
  ELSE LET mid   == (lo + hi) \div 2
           first == ApplyNodes(s, order, lo, mid)
       IN  IF Evaluated(first) THEN ApplyNodes(first, order, mid + 1, hi)
           ELSE first

\* recomputeStats with the active nodes visited in the given order; the
\* armor clamp (0.85) is the final pass.
ComposeInOrder(order) ==
  LET s == ApplyNodes(createDefaultStats, order, 1, Len(order))
  IN  [s EXCEPT !.armorFlat = FMin(@, DOUBLE[85])]

\* The members of a set of ids as a sequence: catalog ids in catalog order,
\* then the others.
RECURSIVE SeqOfSet(_)
SeqOfSet(S) ==
  IF S = {} THEN <<>>
  ELSE LET x == CHOOSE y \in S : TRUE IN <<x>> \o SeqOfSet(S \ {x})

Order(S) ==
  SelectSeq(NODE_IDS, LAMBDA id : id \in S) \o SeqOfSet(S \ CatalogIds)

\* recomputeStats(), the active Set being the one given: a Set is iterated in
\* the order in which its members were inserted, and active is that sequence.
recomputeStats(active) == ComposeInOrder(active)

(***************************************************************************)
(* BuildCode: the build codec.  A string is a sequence of one-character   *)
(* strings; a binary string is the sequence of its character codes.       *)
(***************************************************************************)

UPPER ==
  << "A", "B", "C", "D", "E", "F", "G", "H", "I", "J", "K", "L", "M",
     "N", "O", "P", "Q", "R", "S", "T", "U", "V", "W", "X", "Y", "Z" >>

LOWER ==
  << "a", "b", "c", "d", "e", "f", "g", "h", "i", "j", "k", "l", "m",
     "n", "o", "p", "q", "r", "s", "t", "u", "v", "w", "x", "y", "z" >>

DIGITS == << "0", "1", "2", "3", "4", "5", "6", "7", "8", "9" >>

\* The base64 alphabet, by value.
B64 == UPPER \o LOWER \o DIGITS \o << "+", "/" >>

\* The white space String.prototype.trim and atob remove, among the
\* characters of the inputs.
WHITESPACE == {" ", "\t"}

Range(seq) == {seq[i] : i \in 1..Len(seq)}

IndexOf(seq, c) == CHOOSE i \in 1..Len(seq) : seq[i] = c

\* String.prototype.toUpperCase, one character.
UpperChar(c) == IF c \in Range(LOWER) THEN UPPER[IndexOf(LOWER, c)] ELSE c

toUpperCase(str) == [i \in 1..Len(str) |-> UpperChar(str[i])]

\* String.prototype.trim: the white space at both ends is removed.
RECURSIVE trimStart(_)
trimStart(str) ==
  IF str # <<>> /\ Head(str) \in WHITESPACE THEN trimStart(Tail(str)) ELSE str

RECURSIVE trimEnd(_)
trimEnd(str) ==
  IF str # <<>> /\ str[Len(str)] \in WHITESPACE
  THEN trimEnd(SubSeq(str, 1, Len(str) - 1))
  ELSE str

trim(str) == trimEnd(trimStart(str))

startsWith(str, prefix) ==
  /\ Len(str) >= Len(prefix)
  /\ SubSeq(str, 1, Len(prefix)) = prefix

\* String.prototype.slice(n)
slice(str, n) == SubSeq(str, n + 1, Len(str))

\* byte & (1 << k), as a truth value
BitSet(byte, k) == (byte \div Pow2(k)) % 2 = 1

\* byte | (1 << k)
OrBit(byte, k) == IF BitSet(byte, k) THEN byte ELSE byte + Pow2(k)

\* btoa of three bytes, and of the one or two bytes left at the end.
Btoa3(a, b, c) ==
  << B64[(a \div 4) + 1], B64[((a % 4) * 16 + b \div 16) + 1],
     B64[((b % 16) * 4 + c \div 64) + 1], B64[(c % 64) + 1] >>

Btoa2(a, b) ==
  << B64[(a \div 4) + 1], B64[((a % 4) * 16 + b \div 16) + 1],
     B64[((b % 16) * 4) + 1], "=" >>

Btoa1(a) == << B64[(a \div 4) + 1], B64[((a % 4) * 16) + 1], "=", "=" >>

\* btoa: the base64 text of a binary string, padded with "=".
RECURSIVE btoa(_)
btoa(binary) ==
  IF Len(binary) = 0 THEN <<>>
  ELSE IF Len(binary) = 1 THEN Btoa1(binary[1])
  ELSE IF Len(binary) = 2 THEN Btoa2(binary[1], binary[2])
  ELSE Btoa3(binary[1], binary[2], binary[3]) \o btoa(slice(binary, 3))

\* atob of text made of alphabet characters only, of a length that is not
\* 1 modulo 4: four characters give three bytes; of two or three characters
\* at the end the bits that do not fill a byte are dropped.
RECURSIVE AtobBytes(_)
AtobBytes(data) ==
  LET v(i) == IndexOf(B64, data[i]) - 1
  IN  IF Len(data) = 0 THEN <<>>
      ELSE IF Len(data) = 2 THEN << v(1) * 4 + v(2) \div 16 >>
      ELSE IF Len(data) = 3
        THEN << v(1) * 4 + v(2) \div 16, (v(2) % 16) * 16 + v(3) \div 4 >>
      ELSE << v(1) * 4 + v(2) \div 16, (v(2) % 16) * 16 + v(3) \div 4,
              (v(3) % 4) * 64 + v(4) >> \o AtobBytes(slice(data, 4))

\* atob (the forgiving base64 decoding of the platform): white space is
\* removed anywhere; if the length is then a multiple of 4, one or two "=" at
\* the end are removed; a length of 1 modulo 4, or any character outside the
\* alphabet, throws.  The outcome is the binary string or the exception.
atob(str) ==
  LET data   == SelectSeq(str, LAMBDA c : c \notin WHITESPACE)
      n      == Len(data)
      pads   == IF n % 4 = 0 /\ n >= 2 /\ data[n] = "=" /\ data[n - 1] = "="
                THEN 2
                ELSE IF n % 4 = 0 /\ n >= 1 /\ data[n] = "=" THEN 1 ELSE 0
      unpad  == SubSeq(data, 1, n - pads)
  IN  IF Len(unpad) % 4 = 1 \/ \E i \in 1..Len(unpad) : unpad[i] \notin Range(B64)
      THEN [throws |-> TRUE, binary |-> <<>>]
      ELSE [throws |-> FALSE, binary |-> AtobBytes(unpad)]

BYTE_COUNT == (Len(NODE_IDS) + 7) \div 8

PREFIX == << "N", "E", "X", "U", "S", "-" >>

\* One iteration of the loop of encodeBuild, for the 0-based index i.
EncodeBit(bytes, activeNodes, i) ==
  IF NODE_IDS[i + 1] \in activeNodes
  THEN [bytes EXCEPT ![(i \div 8) + 1] = OrBit(@, i % 8)]
  ELSE bytes

\* for (let i = 0; i < NODE_IDS.length; i++), iterations lo..hi in order.
RECURSIVE EncodeBits(_, _, _, _)
EncodeBits(bytes, activeNodes, lo, hi) ==
  IF lo > hi THEN bytes
  ELSE IF lo = hi THEN EncodeBit(bytes, activeNodes, lo)
  ELSE LET mid   == (lo + hi) \div 2
           first == EncodeBits(bytes, activeNodes, lo, mid)
       IN  IF Evaluated(first) THEN EncodeBits(first, activeNodes, mid + 1, hi)
           ELSE first

\* Encode a set of active node ids to a shareable build code.
encodeBuild(activeNodes) ==
  LET bytes  == EncodeBits([j \in 1..BYTE_COUNT |-> 0], activeNodes,
                           0, Len(NODE_IDS) - 1)
  IN  PREFIX \o btoa(bytes)

\* An iteration of the while loop that does not look at visited: every
\* neighbour in the active set is queued.
BfsStepRevisiting(st, adj, active) ==
  LET curr      == Head(st.queue)
      neighbors == IF Has(adj, curr) THEN adj[curr] ELSE {}
      fresh     == {n \in neighbors : n \in active}
  IN  [visited |-> st.visited \cup fresh,
       queue   |-> Tail(st.queue) \o SeqOfSet(fresh)]

\* One iteration of the while loop of validateConnectivity: the head of the
\* queue is taken off, and its neighbours that are in the active set and not
\* yet visited are marked and queued.
BfsStep(st, adj, active) ==
  LET curr      == Head(st.queue)
      neighbors == IF Has(adj, curr) THEN adj[curr] ELSE {}
      fresh     == {n \in neighbors : n \in active /\ n \notin st.visited}
  IN  [visited |-> st.visited \cup fresh,
       queue   |-> Tail(st.queue) \o SeqOfSet(fresh)]

\* while (queue.length > 0), at most n iterations of it.
RECURSIVE BfsLoop(_, _, _, _)
BfsLoop(st, adj, active, n) ==
  IF n = 0 \/ st.queue = <<>> THEN st
  ELSE IF n = 1 THEN BfsStep(st, adj, active)
  ELSE LET first == BfsLoop(st, adj, active, n \div 2)
       IN  IF Evaluated(first) THEN BfsLoop(first, adj, active, n - n \div 2)
           ELSE first

\* validateConnectivity as it would be if the traversal followed every edge of
\* the index, the test that the neighbour is a member of the set forgotten.
ValidateConnectivityUnfiltered(active) ==
  LET adj  == buildAdjacency
      done == BfsLoop([visited |-> {"start"}, queue |-> <<"start">>], adj,
                      DOMAIN adj, Cardinality(DOMAIN adj) + 1)
  IN  \A id \in active : id \in done.visited

\* Every active node must be reachable from 'start' via other active nodes.
\* The loop ends within one iteration per key of adj and one for 'start':
\* only an id that was not visited yet is ever queued.
validateConnectivity(active) ==
  LET adj  == buildAdjacency
      done == BfsLoop([visited |-> {"start"}, queue |-> <<"start">>], adj,
                      active, Cardinality(DOMAIN adj) + 1)
  IN  \A id \in active : id \in done.visited

\* What a call of decodeBuild gives: a set of ids, null, or an exception.
\* A returned Set is its members and the order of their insertion.
ReturnSet(order) == [kind |-> "set", nodes |-> Range(order), order |-> order]
ReturnNull == [kind |-> "null", nodes |-> {}, order |-> <<>>]
Throw == [kind |-> "throw", nodes |-> {}, order |-> <<>>]

\* The Set the loop of decodeBuild fills, with 'start' added after it: the
\* ids of bits in catalog order, then 'start' if it is not among them.
InsertedInOrder(bits) ==
  SelectSeq(NODE_IDS, LAMBDA id : id \in bits)
  \o (IF "start" \in bits THEN <<>> ELSE <<"start">>)

\* BitsOf as it would be if the decoder numbered the bits of a byte from its
\* most significant end.
BitsOfMsbFirst(bytes) ==
  {NODE_IDS[i + 1] : i \in {k \in 0..(Len(NODE_IDS) - 1) :
                              /\ k \div 8 < Len(bytes)
                              /\ BitSet(bytes[(k \div 8) + 1], 7 - (k % 8))}}

\* The ids whose bit is set in the bytes; a byte the payload does not have
\* sets no bit.
BitsOf(bytes) ==
  {NODE_IDS[i + 1] : i \in {k \in 0..(Len(NODE_IDS) - 1) :
                              /\ k \div 8 < Len(bytes)
                              /\ BitSet(bytes[(k \div 8) + 1], k % 8)}}

\* The try block of a decodeBuild that takes a payload of BYTE_COUNT bytes
\* and no other.
DecodeBodyCheckingLength(stripped) ==
  LET b64    == slice(stripped, Len(PREFIX))
      binary == atob(b64)
      bits   == BitsOf(binary.binary)
      active == bits \cup {"start"}
  IN  IF binary.throws THEN Throw
      ELSE IF Len(binary.binary) # BYTE_COUNT THEN ReturnNull
      ELSE IF ~validateConnectivity(active) THEN ReturnNull
      ELSE ReturnSet(InsertedInOrder(bits))

\* The try block of decodeBuild.
DecodeBody(stripped) ==
  LET b64    == slice(stripped, Len(PREFIX))
      binary == atob(b64)
      bits   == BitsOf(binary.binary)
      active == bits \cup {"start"}
  IN  IF binary.throws THEN Throw
      ELSE IF ~validateConnectivity(active) THEN ReturnNull
      ELSE ReturnSet(InsertedInOrder(bits))

\* decodeBuild as it would be without its try/catch: what atob throws
\* reaches the caller.
DecodeBuildWithoutCatch(text) ==
  LET stripped == trim(text)
  IN  IF ~startsWith(toUpperCase(stripped), PREFIX) THEN ReturnNull
      ELSE DecodeBody(stripped)

\* Decode a build code back to a node id set; null if the code is malformed
\* or describes a disconnected graph.
decodeBuild(text) ==
  LET stripped == trim(text)
  IN  IF ~startsWith(toUpperCase(stripped), PREFIX) THEN ReturnNull
      ELSE LET r == DecodeBody(stripped)
           IN  IF r.kind = "throw" THEN ReturnNull ELSE r

(***************************************************************************)
(* SkillTreeStore: the session                                             *)
(***************************************************************************)

\* Bounds of the exploration.
MaxActive == 4
MaxNode == 9
MaxSkillPoints == 3
MaxGrant == 2
MaxSetSize == 3
MaxBits == 5
MaxVisited == 5
MaxCreated == 4
MaxVisitNode == 24

\* The balance of a fresh or reset session.
InitialSkillPoints == 2

\* Identifiers no catalog node has (an id of another catalog version).
UnknownIds == {"legacy_node"}

\* The ids activate is called with: the first MaxNode nodes of the catalog
\* and the unknown ones.
ActivateIds == {NODE_IDS[i] : i \in 1..MaxNode} \cup UnknownIds

VARIABLES
  _activeNodes,    \* the active node ids: the members of the Set
  _activeOrder,    \* the same Set: its members in the order of insertion
  _skillPoints,    \* the unspent balance
  _adjacency,      \* the adjacency index of the session
  _computedStats,  \* the snapshot of the derived modifiers
  created,         \* the calls of createDefaultStats so far
  snapshot,        \* the objects _computedStats refers to: the call that
                   \* created the ComputedStats and the one that created the
                   \* Set in its behaviors field
  _listeners,      \* the callbacks registered by onChange, in order
  calls,           \* the callbacks run by the last operation, in order, each
                   \* with the balance and active set it could read
  last             \* the last operation: its name, argument and result

storeVars ==
  <<_activeNodes, _activeOrder, _skillPoints, _adjacency, _computedStats,
    created, snapshot>>

\* A recomputeStats that clears and refills the object it made before.
Reused ==
  /\ created' = created
  /\ snapshot' = snapshot

\* const s = createDefaultStats() ... return s, assigned to _computedStats:
\* every call creates a ComputedStats and, for its behaviors, a Set.
Fresh ==
  /\ created' = created + 1
  /\ snapshot' = [stats |-> created + 1, behaviors |-> created + 1]

\* A notify that calls the subscribers from the last registered to the
\* first.
NotifyNewestFirst ==
  calls' = [i \in 1..Len(_listeners) |->
              [fn |-> _listeners[Len(_listeners) + 1 - i],
               skillPoints |-> _skillPoints',
               activeNodes |-> _activeNodes']]

\* for (const fn of _listeners) fn(): run after the state is updated, so the
\* callbacks read the new state.
notify ==
  calls' = [i \in 1..Len(_listeners) |->
              [fn |-> _listeners[i], skillPoints |-> _skillPoints',
               activeNodes |-> _activeNodes']]

isActive(id) == id \in _activeNodes

\* isReachable as it would be if it only asked whether the index knows the
\* node, not whether a neighbour of it is active.
IsReachableIgnoringNeighbours(id) ==
  IF id \in _activeNodes THEN FALSE
  ELSE IF ~Has(NODE_MAP, id) THEN FALSE
  ELSE Has(_adjacency, id)

\* isReachable as it would be without its first test: an active node with an
\* active neighbour counts as reachable.
IsReachableIncludingActive(id) ==
  IF ~Has(NODE_MAP, id) THEN FALSE
  ELSE /\ Has(_adjacency, id)
       /\ \E n \in _adjacency[id] : n \in _activeNodes

\* isReachable as it would be if a node the index does not know counted as
\* reachable.
IsReachableUnlessIndexed(id) ==
  IF id \in _activeNodes THEN FALSE
  ELSE IF ~Has(_adjacency, id) THEN TRUE
  ELSE \E n \in _adjacency[id] : n \in _activeNodes

\* True if the node is adjacent to at least one active node; the cost is
\* not looked at.
isReachable(id) ==
  IF id \in _activeNodes THEN FALSE
  ELSE IF ~Has(NODE_MAP, id) THEN FALSE
  ELSE /\ Has(_adjacency, id)
       /\ \E n \in _adjacency[id] : n \in _activeNodes

\* canActivate as it would be if the balance were not compared with the cost.
CanActivateIgnoringCost(id) ==
  IF ~isReachable(id) THEN FALSE
  ELSE Has(NODE_MAP, id)

\* canActivate as it would be with > for >=.
CanActivateStrictlyRicher(id) ==
  IF ~isReachable(id) THEN FALSE
  ELSE IF ~Has(NODE_MAP, id) THEN FALSE
  ELSE _skillPoints > NODE_MAP[id].cost

\* True only when the node is reachable and affordable right now.
canActivate(id) ==
  IF ~isReachable(id) THEN FALSE
  ELSE IF ~Has(NODE_MAP, id) THEN FALSE
  ELSE _skillPoints >= NODE_MAP[id].cost

\* activate as it would be if the subscribers were notified before the
\* precondition is looked at.
ActivateNotifyingOnFailure(id) ==
  IF ~canActivate(id)
  THEN /\ UNCHANGED <<storeVars, _listeners>>
       /\ notify
       /\ last' = [op |-> "activate", arg |-> id, ret |-> FALSE]
  ELSE /\ Cardinality(_activeNodes) < MaxActive
       /\ _activeNodes' = _activeNodes \cup {id}
       /\ _activeOrder' = Append(_activeOrder, id)
       /\ _skillPoints' = _skillPoints - NODE_MAP[id].cost
       /\ _computedStats' = recomputeStats(_activeOrder')
       /\ created < MaxCreated
       /\ Fresh
       /\ notify
       /\ last' = [op |-> "activate", arg |-> id, ret |-> TRUE]
       /\ UNCHANGED <<_adjacency, _listeners>>

\* activate as it would be if the snapshot were not recomputed.
ActivateWithStaleStats(id) ==
  IF ~canActivate(id)
  THEN /\ UNCHANGED <<storeVars, _listeners>>
       /\ calls' = <<>>
       /\ last' = [op |-> "activate", arg |-> id, ret |-> FALSE]
  ELSE /\ Cardinality(_activeNodes) < MaxActive
       /\ _activeNodes' = _activeNodes \cup {id}
       /\ _activeOrder' = Append(_activeOrder, id)
       /\ _skillPoints' = _skillPoints - NODE_MAP[id].cost
       /\ notify
       /\ last' = [op |-> "activate", arg |-> id, ret |-> TRUE]
       /\ UNCHANGED <<_adjacency, _computedStats, created, snapshot,
                      _listeners>>

\* An activate that takes the cost and returns true without adding the node.
ActivateWithoutAdding(id) ==
  IF ~canActivate(id)
  THEN /\ UNCHANGED <<storeVars, _listeners>>
       /\ calls' = <<>>
       /\ last' = [op |-> "activate", arg |-> id, ret |-> FALSE]
  ELSE /\ Cardinality(_activeNodes) < MaxActive
       /\ UNCHANGED <<_activeNodes, _activeOrder>>
       /\ _skillPoints' = _skillPoints - NODE_MAP[id].cost
       /\ _computedStats' = recomputeStats(_activeOrder')
       /\ created < MaxCreated
       /\ Fresh
       /\ notify
       /\ last' = [op |-> "activate", arg |-> id, ret |-> TRUE]
       /\ UNCHANGED <<_adjacency, _listeners>>

\* An activate that makes the node the only active one beside the root.
ActivateForgettingOthers(id) ==
  IF ~canActivate(id)
  THEN /\ UNCHANGED <<storeVars, _listeners>>
       /\ calls' = <<>>
       /\ last' = [op |-> "activate", arg |-> id, ret |-> FALSE]
  ELSE /\ Cardinality(_activeNodes) < MaxActive
       /\ _activeNodes' = {"start", id}
       /\ _activeOrder' = <<"start", id>>
       /\ _skillPoints' = _skillPoints - NODE_MAP[id].cost
       /\ _computedStats' = recomputeStats(_activeOrder')
       /\ created < MaxCreated
       /\ Fresh
       /\ notify
       /\ last' = [op |-> "activate", arg |-> id, ret |-> TRUE]
       /\ UNCHANGED <<_adjacency, _listeners>>

\* if (!this.canActivate(id)) return false; otherwise the node is added, its
\* cost is taken off the balance, the snapshot recomputed, the subscribers
\* notified, and true returned.
activate(id) ==
  IF ~canActivate(id)
  THEN /\ UNCHANGED <<storeVars, _listeners>>
       /\ calls' = <<>>
       /\ last' = [op |-> "activate", arg |-> id, ret |-> FALSE]
  ELSE /\ Cardinality(_activeNodes) < MaxActive
       /\ _activeNodes' = _activeNodes \cup {id}
       /\ _activeOrder' = Append(_activeOrder, id)
       /\ _skillPoints' = _skillPoints - NODE_MAP[id].cost
       /\ _computedStats' = recomputeStats(_activeOrder')
       /\ created < MaxCreated
       /\ Fresh
       /\ notify
       /\ last' = [op |-> "activate", arg |-> id, ret |-> TRUE]
       /\ UNCHANGED <<_adjacency, _listeners>>

\* An addSkillPoints that recomputes the snapshot as the operations on the
\* active set do.
AddSkillPointsRecomputing(n) ==
  /\ _skillPoints + n <= MaxSkillPoints
  /\ _skillPoints' = _skillPoints + n
  /\ UNCHANGED <<_activeNodes, _activeOrder, _adjacency, _listeners>>
  /\ _computedStats' = recomputeStats(_activeOrder)
  /\ created < MaxCreated
  /\ Fresh
  /\ notify
  /\ last' = [op |-> "addSkillPoints", arg |-> n, ret |-> "void"]

addSkillPoints(n) ==
  /\ _skillPoints + n <= MaxSkillPoints
  /\ _skillPoints' = _skillPoints + n
  /\ UNCHANGED <<_activeNodes, _activeOrder, _adjacency, _computedStats,
                 created, snapshot, _listeners>>
  /\ notify
  /\ last' = [op |-> "addSkillPoints", arg |-> n, ret |-> "void"]

\* A loadBuild that adds the nodes given to the active ones.
LoadBuildMerging(nodes) ==
  /\ _activeNodes' = _activeNodes \cup Range(nodes)
  /\ _activeOrder' =
       _activeOrder \o SelectSeq(nodes, LAMBDA id : id \notin _activeNodes)
  /\ _skillPoints' = 0
  /\ _adjacency' = buildAdjacency
  /\ _computedStats' = recomputeStats(_activeOrder')
  /\ created < MaxCreated
  /\ Fresh
  /\ notify
  /\ UNCHANGED _listeners

\* Replace the active nodes with a decoded build; the balance becomes 0.
\* The Set given is the sequence of its members in the order of insertion.
loadBuild(nodes) ==
  /\ _activeNodes' = Range(nodes)
  /\ _activeOrder' = nodes
  /\ _skillPoints' = 0
  /\ _adjacency' = buildAdjacency
  /\ _computedStats' = recomputeStats(_activeOrder')
  /\ created < MaxCreated
  /\ Fresh
  /\ notify
  /\ UNCHANGED _listeners

\* reset as it would be if the new active set were created empty.
ResetToEmpty ==
  /\ _activeNodes' = {}
  /\ _activeOrder' = <<>>
  /\ _skillPoints' = InitialSkillPoints
  /\ _adjacency' = buildAdjacency
  /\ _computedStats' = recomputeStats(_activeOrder')
  /\ created < MaxCreated
  /\ Fresh
  /\ notify
  /\ last' = [op |-> "reset", arg |-> "void", ret |-> "void"]
  /\ UNCHANGED _listeners

\* A reset that leaves the balance as it is.
ResetKeepingBalance ==
  /\ _activeNodes' = {"start"}
  /\ _activeOrder' = <<"start">>
  /\ _skillPoints' = _skillPoints
  /\ _adjacency' = buildAdjacency
  /\ _computedStats' = recomputeStats(_activeOrder')
  /\ created < MaxCreated
  /\ Fresh
  /\ notify
  /\ last' = [op |-> "reset", arg |-> "void", ret |-> "void"]
  /\ UNCHANGED _listeners

\* Full reset, called on game restart.
reset ==
  /\ _activeNodes' = {"start"}
  /\ _activeOrder' = <<"start">>
  /\ _skillPoints' = InitialSkillPoints
  /\ _adjacency' = buildAdjacency
  /\ _computedStats' = recomputeStats(_activeOrder')
  /\ created < MaxCreated
  /\ Fresh
  /\ notify
  /\ last' = [op |-> "reset", arg |-> "void", ret |-> "void"]
  /\ UNCHANGED _listeners

\* Subscribe to any state change.
onChange(fn) ==
  /\ _listeners' = Append(_listeners, fn)
  /\ calls' = <<>>
  /\ last' = [op |-> "onChange", arg |-> fn, ret |-> "void"]
  /\ UNCHANGED storeVars

\* The module-level initialisers of SkillTreeStore.
StoreInit ==
  /\ _activeNodes = {"start"}
  /\ _activeOrder = <<"start">>
  /\ _skillPoints = InitialSkillPoints
  /\ _adjacency = buildAdjacency
  /\ _computedStats = recomputeStats(<<"start">>)
  /\ created = 1
  /\ snapshot = [stats |-> 1, behaviors |-> 1]
  /\ _listeners = <<>>
  /\ calls = <<>>
  /\ last = [op |-> "init", arg |-> "void", ret |-> "void"]

(***************************************************************************)
(* Inputs                                                                  *)
(***************************************************************************)

\* The catalog nodes next to a member of S that are not in S.
Frontier(S) ==
  {n \in CatalogIds : n \notin S /\ \E m \in buildAdjacency[n] : m \in S}

\* The root-connected sets of at most k nodes: {start}, and every such set
\* with one more node of its frontier.
RECURSIVE GrownSets(_)
GrownSets(k) ==
  IF k <= 1 THEN {{"start"}}
  ELSE LET prev == GrownSets(k - 1)
       IN  prev \cup UNION {{S \cup {n} : n \in Frontier(S)} : S \in prev}

Keystones == {id \in CatalogIds : NODE_MAP[id].tier = "keystone"}

\* Root-connected sets: the small ones, and the whole catalog less any of the
\* keystones (which are leaves of the graph).
ConnectedSets ==
  GrownSets(MaxSetSize) \cup {CatalogIds \ K : K \in SUBSET Keystones}

\* Sets that need not be valid: a connected set less one of its nodes.
PuncturedSets ==
  UNION {{S \ {n} : n \in S} : S \in GrownSets(MaxSetSize)}

\* Payload bytes: every one-byte payload over the first MaxBits nodes.
SmallPayloads == {btoa(<<b>>) : b \in 0..(Pow2(MaxBits) - 1)}

\* "NEXUS-Dg==" (start's bit clear; rf_entry, rf_s1, rf_s2), other spellings
\* of its prefix, and white space around it.
GoodPayload == << "D", "g", "=", "=" >>

PrefixSpellings ==
  { PREFIX, << "n", "e", "x", "u", "s", "-" >>,
    << "N", "e", "x", "u", "S", "-" >> }

BadPrefixes ==
  { <<>>, << "N", "E", "X", "U", "S" >>, << "N", "E", "X", "U", "S", "_" >>,
    << "X", "N", "E", "X", "U", "S", "-" >>, << "B", "U", "I", "L", "D", "-" >> }

Padding == { <<>>, << " " >>, << "\t", " " >> }

\* Payloads that are not base64: a length of 1 modulo 4, a character outside
\* the alphabet, padding in the wrong place.
BadPayloads ==
  { << "D" >>, << "D", "g", "=", "=", "A" >>, << "D", "!", "=", "=" >>,
    << "D", "g", "=" >>, << "=", "=", "=", "=" >>, << "D", "-", "g", "_" >>,
    << "D", "=", "g", "=" >> }

\* Payloads atob takes though they are not padded base64 text: no padding,
\* white space inside, nothing at all, more bytes than the catalog needs.
LenientPayloads ==
  { <<>>, << "D", "g" >>, << "D", " ", "g", "=", "=" >>,
    btoa(<<3, 0, 0, 0, 0, 0, 0, 255, 255>>), btoa(<<3, 0, 0, 0, 0, 0, 254>>) }

\* The texts given to decodeBuild.
InputCodes ==
  {PREFIX \o p : p \in SmallPayloads \cup BadPayloads \cup LenientPayloads}
  \cup {a \o x \o GoodPayload \o b :
          a \in Padding, x \in PrefixSpellings \cup BadPrefixes, b \in Padding}
  \cup {a \o PREFIX \o p : a \in Padding, p \in BadPayloads}
  \cup {encodeBuild(S) : S \in ConnectedSets \cup PuncturedSets}

\* The texts typed into the import prompt.
ImportInputs ==
  { <<>>,
    encodeBuild({"start"}), encodeBuild({"start", "rf_entry"}),
    encodeBuild({"start", "rf_entry", "rf_s1", "rf_n1"}),
    encodeBuild({"start", "rf_entry", "rf_s1", "rf_n1", "rf_s3", "rf_key"}),
    PREFIX \o GoodPayload,
    << " ", "n", "e", "x", "u", "s", "-" >> \o GoodPayload \o << " " >>,
    << "N", "E", "X", "U", "S" >> \o GoodPayload,
    PREFIX \o << "D" >>,
    PREFIX \o << "D", "!", "=", "=" >>,
    encodeBuild({"start", "rf_s1"}),
    encodeBuild({"rf_n1"}) }

\* decodeBuild(input) for the texts of the import prompt, each evaluated once.
DecodedImports == [input \in ImportInputs |-> decodeBuild(input)]

\* The Sets given to loadBuild when it is called directly: the members of
\* any set of these ids, inserted in any order.
LoadSets ==
  LET ids == {"start", "rf_entry", "legacy_node"}
  IN  UNION {{order \in [1..k -> ids] :
                \A i, j \in 1..k : order[i] = order[j] => i = j} :
             k \in 0..Cardinality(ids)}

(***************************************************************************)
(* The callers: Game and SkillTreeUI                                       *)
(***************************************************************************)

\* The callbacks the program registers while it starts, in this order: the
\* redraw of SkillTreeUI, then the skill-point badge of Game.
SUBSCRIBERS == << "treeUI", "spBadge" >>

Started == Len(_listeners) = Len(SUBSCRIBERS)

\* decodeBuild(input), from the table when input is one of its texts.
Decoded(input) ==
  IF input \in ImportInputs THEN DecodedImports[input] ELSE decodeBuild(input)

\* The import handler without its check of the decoded value: whatever
\* decodeBuild returned is loaded.
ImportTapWithoutNullCheck(input) ==
  IF input = <<>>
  THEN /\ UNCHANGED <<storeVars, _listeners>>
       /\ calls' = <<>>
       /\ last' = [op |-> "import", arg |-> input, ret |-> "IMPORT"]
  ELSE /\ loadBuild(Decoded(input).order)
       /\ last' = [op |-> "import", arg |-> input, ret |-> "LOADED!"]

\* The import button of the build-code panel, the text the prompt returns
\* being input: an empty text does nothing, a text decodeBuild rejects shows
\* INVALID!, any other is loaded.
importTap(input) ==
  IF input = <<>>
  THEN /\ UNCHANGED <<storeVars, _listeners>>
       /\ calls' = <<>>
       /\ last' = [op |-> "import", arg |-> input, ret |-> "IMPORT"]
  ELSE LET nodes == Decoded(input)
       IN  IF nodes.kind = "set"
           THEN /\ loadBuild(nodes.order)
                /\ last' = [op |-> "import", arg |-> input, ret |-> "LOADED!"]
           ELSE /\ UNCHANGED <<storeVars, _listeners>>
                /\ calls' = <<>>
                /\ last' = [op |-> "import", arg |-> input,
                            ret |-> IF nodes.kind = "null" THEN "INVALID!"
                                    ELSE "exception"]

\* The export button: the code of the active set goes to the clipboard.
exportTap ==
  /\ UNCHANGED <<storeVars, _listeners>>
  /\ calls' = <<>>
  /\ last' = [op |-> "export", arg |-> "void",
              ret |-> encodeBuild(_activeNodes)]

\* loadBuild called directly, with any set.
loadBuildCall(nodes) ==
  /\ loadBuild(nodes)
  /\ last' = [op |-> "loadBuild", arg |-> Range(nodes), ret |-> "void"]

(***************************************************************************)
(* The codec on its own: a set is encoded and the code decoded, or a text      *)
(* is decoded.                                                             *)
(***************************************************************************)

VARIABLES
  phase,    \* "idle", "set" (a set to encode), "code" (a text to decode),
            \* "decoded"; "recompute" (recomputeStats is about to run),
            \* "composed"
  given,    \* the set that was encoded, if one was
  codeText, \* the text
  result    \* what decodeBuild gave

codecVars == <<phase, given, codeText, result>>

CodecIdle ==
  /\ phase = "idle"
  /\ given = {}
  /\ codeText = <<>>
  /\ result = ReturnNull

Encode ==
  /\ phase = "set"
  /\ codeText' = encodeBuild(given)
  /\ phase' = "code"
  /\ UNCHANGED <<given, result>>

Decode ==
  /\ phase = "code"
  /\ result' = decodeBuild(codeText)
  /\ phase' = "decoded"
  /\ UNCHANGED <<given, codeText>>

(***************************************************************************)
(* Beside the store and the codec: the game that holds the store's         *)
(* snapshot, the ledger of the points granted, and the traversal of        *)
(* validateConnectivity step by step.                                      *)
(***************************************************************************)

VARIABLES
  game,     \* worldStats: the object world.stats refers to (0 before the
            \* first session), treeOpen: the tree is shown, collected: how
            \* many collectibles the world holds
  granted,  \* the sum of the amounts given to addSkillPoints since the last
            \* reset
  bfs       \* validateConnectivity at work: pc, the set it was given, visited,
            \* queue, and every id it pushed on the queue so far

asideVars == <<game, granted, bfs>>

BfsIdle ==
  [pc |-> "idle", active |-> {}, visited |-> {}, queue |-> <<>>,
   pushed |-> <<>>, ret |-> FALSE]

AsideIdle ==
  /\ game = [worldStats |-> 0, treeOpen |-> FALSE, collected |-> 0]
  /\ granted = 0
  /\ bfs = BfsIdle

vars == <<_activeNodes, _activeOrder, _skillPoints, _adjacency,
          _computedStats, created, snapshot, _listeners, calls, last, phase,
          given, codeText,
          result, game, granted, bfs>>

\* The program starting: the next subscriber registers.
Register ==
  /\ ~Started
  /\ onChange(SUBSCRIBERS[Len(_listeners) + 1])
  /\ UNCHANGED <<codecVars, asideVars>>

\* The player taps a node of the tree.
TapNode ==
  /\ Started
  /\ \E id \in ActivateIds : activate(id)
  /\ UNCHANGED <<codecVars, asideVars>>

\* Skill points are granted (a wave is cleared).
Grant ==
  /\ Started
  /\ \E n \in 0..MaxGrant : addSkillPoints(n)
  /\ UNCHANGED <<codecVars, asideVars>>

\* The game restarts.
Restart ==
  /\ Started
  /\ reset
  /\ UNCHANGED <<codecVars, asideVars>>

ImportBuild ==
  /\ Started
  /\ \E input \in ImportInputs : importTap(input)
  /\ UNCHANGED <<codecVars, asideVars>>

ExportBuild ==
  /\ Started
  /\ exportTap
  /\ UNCHANGED <<codecVars, asideVars>>

LoadAnyBuild ==
  /\ Started
  /\ \E nodes \in LoadSets : loadBuildCall(nodes)
  /\ UNCHANGED <<codecVars, asideVars>>

\* The session as the program drives it: the two subscribers are registered
\* while the game starts, then the player activates nodes, waves grant
\* points, the game restarts, builds are exported and imported.
Init == StoreInit /\ CodecIdle /\ AsideIdle

Next ==
  \/ Register
  \/ TapNode
  \/ Grant
  \/ Restart
  \/ ImportBuild
  \/ ExportBuild

Spec == Init /\ [][Next]_vars

\* The store called directly: loadBuild is given any set.
NextApi ==
  \/ Register
  \/ TapNode
  \/ Grant
  \/ Restart
  \/ LoadAnyBuild

SpecApi == Init /\ [][NextApi]_vars

\* The codec alone.
InitCodec ==
  /\ StoreInit
  /\ AsideIdle
  /\ result = ReturnNull
  /\ \/ /\ phase = "set"
        /\ given \in ConnectedSets \cup PuncturedSets
        /\ codeText = <<>>
     \/ /\ phase = "code"
        /\ given = {}
        /\ codeText \in InputCodes

EncodeGiven ==
  Encode /\ UNCHANGED <<storeVars, _listeners, calls, last, asideVars>>

DecodeCode ==
  Decode /\ UNCHANGED <<storeVars, _listeners, calls, last, asideVars>>

NextCodec ==
  \/ EncodeGiven
  \/ DecodeCode

SpecCodec == InitCodec /\ [][NextCodec]_vars

(***************************************************************************)
(* recomputeStats on its own.  It runs inside activate and loadBuild once  *)
(* the active Set has its new content; the Set is one the session can      *)
(* hold: nodes activated one after the other from the root, or a build     *)
(* decodeBuild returned.                                                   *)
(***************************************************************************)

\* The orders of activation with one more node, among the first
\* MaxVisitNode nodes of the catalog: the node is not active and has an
\* active neighbour in the adjacency index.
Activated(orders) ==
  {Append(order, NODE_IDS[i]) :
     <<order, i>> \in
       {<<o, k>> \in orders \X (1..MaxVisitNode) :
          /\ NODE_IDS[k] \notin Range(o)
          /\ buildAdjacency[NODE_IDS[k]] \cap Range(o) # {}}}

\* The orders of activation of exactly n nodes, the root included.
RECURSIVE ActivationsOf(_)
ActivationsOf(n) ==
  IF n <= 1 THEN {<<"start">>} ELSE Activated(ActivationsOf(n - 1))

\* The active Set after at least one and at most MaxVisited - 1 activations.
ActivationOrders == UNION {ActivationsOf(n) : n \in 2..MaxVisited}

\* The builds decodeBuild returns for the codes of the first k nodes of the
\* catalog, for every k.
DecodedOrders ==
  {InsertedInOrder(S) :
     S \in {P \in {{NODE_IDS[i] : i \in 1..k} : k \in 1..Len(NODE_IDS)} :
              validateConnectivity(P)}}

\* activate(id) has added id to the Set and paid for it, or loadBuild(nodes)
\* of a fresh session has stored nodes and zeroed the balance: the snapshot
\* is still the one of the Set before, and recomputeStats comes next.
InitCompose ==
  /\ AsideIdle
  /\ _adjacency = buildAdjacency
  /\ _listeners = SUBSCRIBERS
  /\ calls = <<>>
  /\ phase = "recompute"
  /\ given = {}
  /\ codeText = <<>>
  /\ result = ReturnNull
  /\ _skillPoints = 0
  /\ \/ \E order \in ActivationOrders :
          /\ _activeOrder = order
          /\ _activeNodes = Range(order)
          /\ _computedStats = recomputeStats(SubSeq(order, 1, Len(order) - 1))
          /\ created = Len(order) - 1
          /\ last = [op |-> "activate", arg |-> order[Len(order)],
                     ret |-> "running"]
     \/ \E order \in DecodedOrders :
          /\ _activeOrder = order
          /\ _activeNodes = Range(order)
          /\ _computedStats = recomputeStats(<<"start">>)
          /\ created = 1
          /\ last = [op |-> "loadBuild", arg |-> Range(order),
                     ret |-> "running"]
  /\ snapshot = [stats |-> created, behaviors |-> created]

\* _computedStats = recomputeStats()
Recompute ==
  /\ phase = "recompute"
  /\ _computedStats' = recomputeStats(_activeOrder)
  /\ Fresh
  /\ phase' = "composed"
  /\ UNCHANGED <<_activeNodes, _activeOrder, _skillPoints, _adjacency,
                 _listeners, calls, last, given, codeText, result,
                 asideVars>>

NextCompose == Recompute

SpecCompose == InitCompose /\ [][NextCompose]_vars

(***************************************************************************)
(* The ledger: the store with grants of any sign, the amounts granted      *)
(* since the last reset summed beside it.                                  *)
(***************************************************************************)

\* addSkillPoints with any integer amount.
GrantAny ==
  /\ Started
  /\ \E n \in -MaxGrant..MaxGrant :
       /\ _skillPoints + n >= -MaxSkillPoints
       /\ addSkillPoints(n)
       /\ granted' = granted + n
  /\ UNCHANGED <<codecVars, game, bfs>>

\* reset(), the ledger starting again.
RestartLedger ==
  /\ Started
  /\ reset
  /\ granted' = 0
  /\ UNCHANGED <<codecVars, game, bfs>>

NextLedger ==
  \/ Register
  \/ TapNode
  \/ GrantAny
  \/ RestartLedger

SpecLedger == Init /\ [][NextLedger]_vars

(***************************************************************************)
(* The game around the store: the world of a session takes the store's     *)
(* snapshot as its stats, and the collectibles of the level-up screen are  *)
(* applied to the world.                                                   *)
(***************************************************************************)

MaxCollected == 1

COLLECTIBLES == {"orbital_buzzsaw", "replicator_matrix"}

\* item.apply(world), on the object world.stats refers to.
Apply(item, stats) ==
  IF item = "orbital_buzzsaw"
  THEN [stats EXCEPT !.behaviors = @ \cup {"AURA_DAMAGE"},
                     !.damageMultiplier = FMul(@, DOUBLE[101])]
  ELSE [stats EXCEPT !.multishotAdd = FAdd(@, DOUBLE[100])]

\* startSession(): a new world, its stats the object computedStats returns.
startSession ==
  game' = [game EXCEPT !.worldStats = snapshot'.stats, !.collected = 0]

\* The first session starts once the subscribers are registered.
StartGame ==
  /\ Started
  /\ game.worldStats = 0
  /\ UNCHANGED <<storeVars, _listeners>>
  /\ startSession
  /\ calls' = <<>>
  /\ last' = [op |-> "startSession", arg |-> "void", ret |-> "void"]
  /\ UNCHANGED <<codecVars, granted, bfs>>

\* restart(): SkillTreeStore.reset(), then startSession().
RestartGame ==
  /\ game.worldStats # 0
  /\ reset
  /\ startSession
  /\ UNCHANGED <<codecVars, granted, bfs>>

\* The tree is opened.
OpenTree ==
  /\ game.worldStats # 0
  /\ ~game.treeOpen
  /\ game' = [game EXCEPT !.treeOpen = TRUE]
  /\ UNCHANGED <<storeVars, _listeners>>
  /\ calls' = <<>>
  /\ last' = [op |-> "toggleTree", arg |-> "void", ret |-> "void"]
  /\ UNCHANGED <<codecVars, granted, bfs>>

\* The tree is closed; in the frame that follows, update() gives the world
\* the object computedStats returns.
CloseTree ==
  /\ game.worldStats # 0
  /\ game.treeOpen
  /\ game' = [game EXCEPT !.treeOpen = FALSE, !.worldStats = snapshot.stats]
  /\ UNCHANGED <<storeVars, _listeners>>
  /\ calls' = <<>>
  /\ last' = [op |-> "toggleTree", arg |-> "void", ret |-> "void"]
  /\ UNCHANGED <<codecVars, granted, bfs>>

\* A node of the open tree is tapped.
TapTree ==
  /\ game.worldStats # 0
  /\ game.treeOpen
  /\ TapNode

\* A card of the level-up screen is tapped: item.apply(world) writes to the
\* object world.stats refers to, which is the store's snapshot when the two
\* are the same object.
PickCollectible ==
  /\ game.worldStats # 0
  /\ ~game.treeOpen
  /\ game.collected < MaxCollected
  /\ \E item \in COLLECTIBLES :
       /\ _computedStats' = IF game.worldStats = snapshot.stats
                             THEN Apply(item, _computedStats)
                             ELSE _computedStats
       /\ last' = [op |-> "apply", arg |-> item, ret |-> "void"]
  /\ game' = [game EXCEPT !.collected = @ + 1]
  /\ calls' = <<>>
  /\ UNCHANGED <<_activeNodes, _activeOrder, _skillPoints, _adjacency,
                 created, snapshot, _listeners>>
  /\ UNCHANGED <<codecVars, granted, bfs>>

NextGame ==
  \/ Register
  \/ StartGame
  \/ OpenTree
  \/ TapTree
  \/ CloseTree
  \/ PickCollectible
  \/ RestartGame

SpecGame == Init /\ [][NextGame]_vars

(***************************************************************************)
(* validateConnectivity step by step: one step for each iteration of its   *)
(* while loop, and one for the loop over the set that follows it.          *)
(***************************************************************************)

\* The sets validateConnectivity is given: decodeBuild has added 'start'.
BfsInputs == {S \cup {"start"} : S \in ConnectedSets \cup PuncturedSets}

\* const visited = new Set(); const queue = ['start']; visited.add('start')
InitBfs ==
  /\ StoreInit
  /\ CodecIdle
  /\ game = [worldStats |-> 0, treeOpen |-> FALSE, collected |-> 0]
  /\ granted = 0
  /\ bfs \in {[pc |-> "while", active |-> S, visited |-> {"start"},
               queue |-> <<"start">>, pushed |-> <<"start">>, ret |-> FALSE] :
              S \in BfsInputs}

\* while (queue.length > 0) { const curr = queue.shift()!; ... }
BfsVisit ==
  /\ bfs.pc = "while"
  /\ bfs.queue # <<>>
  /\ LET st == BfsStep([visited |-> bfs.visited, queue |-> bfs.queue],
                       buildAdjacency, bfs.active)
     IN  bfs' = [bfs EXCEPT
                   !.visited = st.visited,
                   !.queue = st.queue,
                   !.pushed = @ \o SubSeq(st.queue, Len(bfs.queue),
                                          Len(st.queue))]
  /\ UNCHANGED <<storeVars, _listeners, calls, last, codecVars, game, granted>>

\* for (const id of active) if (!visited.has(id)) return false; return true
BfsReturn ==
  /\ bfs.pc = "while"
  /\ bfs.queue = <<>>
  /\ bfs' = [bfs EXCEPT !.pc = "done",
                        !.ret = \A id \in bfs.active : id \in bfs.visited]
  /\ UNCHANGED <<storeVars, _listeners, calls, last, codecVars, game, granted>>

NextBfs ==
  \/ BfsVisit
  \/ BfsReturn

\* The call runs on: nothing suspends it.
SpecBfs == InitBfs /\ [][NextBfs]_vars /\ WF_vars(NextBfs)

(***************************************************************************)
(* SkillTreeUI.drawNode: how a node of the tree is drawn                   *)
(***************************************************************************)
drawNode(id) ==
  IF isActive(id) THEN "active"
  ELSE IF canActivate(id) THEN "avail"
  ELSE IF isReachable(id) THEN "reachable"
  ELSE "locked"

(***************************************************************************)
(* Properties.  The graph they speak of is read off the catalog itself:    *)
(* two nodes are neighbours when either declares a connection to the      *)
(* other.                                                                  *)
(***************************************************************************)
\* The nodes id declares, those that declare id left out.
DeclaredTargets(id) ==
  UNION {Range(ALL_NODES[i].connections) :
           i \in {k \in 1..Len(ALL_NODES) : ALL_NODES[k].id = id}}

DeclaredNeighbours(id) ==
  UNION {Range(ALL_NODES[i].connections) :
           i \in {k \in 1..Len(ALL_NODES) : ALL_NODES[k].id = id}}
  \cup {ALL_NODES[i].id :
          i \in {k \in 1..Len(ALL_NODES) : id \in Range(ALL_NODES[k].connections)}}

Neighbours == [id \in CatalogIds |-> DeclaredNeighbours(id)]

\* The members of active joined to the root by a path of members of active,
\* the edges being those of the index adj: the least set that holds the root
\* (if it is a member) and every member next to one of its own.
RECURSIVE Grow(_, _, _)
Grow(S, active, adj) ==
  LET more == {n \in active \ S :
                 n \in DOMAIN adj /\ \E m \in S : m \in adj[n]}
  IN  IF more = {} THEN S ELSE Grow(S \cup more, active, adj)

RootComponent(active, adj) == Grow({"start"} \cap active, active, adj)

RootConnected(active) ==
  "start" \in active /\ RootComponent(active, Neighbours) = active

\* The nodes of S and their neighbours.
Near(S) == S \cup UNION {Neighbours[n] : n \in S \cap CatalogIds}

\* The precondition of activate, negated, in the words of its contract: the
\* node is active already, or no neighbour of it is active (an id the catalog
\* does not have has none), or its cost is more than the balance.
PreconditionFails(id) ==
  \/ id \in _activeNodes
  \/ id \notin CatalogIds
  \/ ~\E n \in Neighbours[id] : n \in _activeNodes
  \/ _skillPoints < NODE_MAP[id].cost

\* The notifications of an operation that notifies: every subscriber once, in
\* the order of registration, each reading the state after the operation.
AllNotified ==
  calls' = [i \in 1..Len(_listeners) |->
              [fn |-> _listeners[i], skillPoints |-> _skillPoints',
               activeNodes |-> _activeNodes']]

\* C1: from a fresh session, through any sequence of activations, grants of
\* a non-negative number of skill points, imports (loadBuild) and resets,
\* the skill-point balance is never negative.
C1_BalanceNeverNegative == _skillPoints >= 0

\* C1's case: an activation has just spent the whole balance on a node that
\* costs more than one point.
C1_Witness ==
  /\ last.op = "activate" /\ last.ret = TRUE
  /\ NODE_MAP[last.arg].cost >= 2
  /\ _skillPoints = 0

\* C2: in every state reached from a fresh session by activate,
\* addSkillPoints, reset and loadBuild of a set decodeBuild returned, every
\* active node is joined to the root 'start' by a path in the adjacency
\* index all of whose nodes are active.
C2_ActiveNodesRootConnected ==
  \A id \in _activeNodes : id \in RootComponent(_activeNodes, _adjacency)

\* C2's cases: a node three edges from the root has just been activated; a
\* build of several nodes has just been imported.
C2_Witness ==
  \/ /\ last.op = "activate" /\ last.ret = TRUE /\ last.arg = "rf_n1"
     /\ Cardinality(_activeNodes) >= 4
  \/ /\ last.op = "import" /\ last.ret = "LOADED!"
     /\ Cardinality(_activeNodes) >= 4

\* C3 as stated: the active set contains the root 'start' in every reachable
\* session state, after any sequence of activate, addSkillPoints, reset and
\* loadBuild, whatever set loadBuild is given.
C3_RootAlwaysActive == "start" \in _activeNodes

\* C3, amended: an operation never takes the root out of the active set,
\* except loadBuild when the set it is given lacks the root (loadBuild stores
\* the set as it is; the sets decodeBuild returns all hold the root).
C3_RootKeptUnlessLoadedWithout ==
  [][ ( /\ "start" \in _activeNodes
        /\ last'.op = "loadBuild" => "start" \in last'.arg )
      => "start" \in _activeNodes' ]_vars

\* C3's case: loadBuild has replaced a larger active set by a smaller one
\* that holds the root.
C3_Witness ==
  /\ last.op = "loadBuild"
  /\ last.arg = {"start", "rf_entry"}
  /\ _activeNodes = {"start", "rf_entry"}
  /\ _skillPoints = 0

\* C4: an activate whose precondition fails (the node is unreachable,
\* unaffordable or already active) returns false and changes nothing: the
\* active set, the balance and the snapshot are as before and no subscriber
\* is notified.
C4_FailedActivateChangesNothing ==
  [][ (last'.op = "activate" /\ PreconditionFails(last'.arg))
      => /\ last'.ret = FALSE
         /\ UNCHANGED <<_activeNodes, _skillPoints, _computedStats>>
         /\ calls' = <<>> ]_vars

\* C4's case: with both subscribers registered, activate has just returned
\* false for a catalog node the balance would pay for, which is more than
\* two edges away from every active node.
C4_Witness ==
  /\ last.op = "activate" /\ last.ret = FALSE
  /\ last.arg \in CatalogIds \ Near(Near(_activeNodes))
  /\ _skillPoints >= NODE_MAP[last.arg].cost
  /\ Len(_listeners) = 2
  /\ calls = <<>>

\* C5: when canActivate(id) holds, activate(id) returns true and the new
\* state is exactly: the active set with id added, the balance less the cost
\* of id, the snapshot recomputed from the new active set, every subscriber
\* notified; in a fresh session a neighbour of the root that costs 1 leaves
\* the balance at 1.
C5_ActivateEffect ==
  [][ (last'.op = "activate" /\ canActivate(last'.arg))
      => /\ last'.ret = TRUE
         /\ _activeNodes' = _activeNodes \cup {last'.arg}
         /\ _skillPoints' = _skillPoints - NODE_MAP[last'.arg].cost
         /\ _computedStats' = recomputeStats(Append(_activeOrder, last'.arg))
         /\ AllNotified
         /\ ( /\ _activeNodes = {"start"}
              /\ _skillPoints = InitialSkillPoints
              /\ NODE_MAP[last'.arg].cost = 1 ) => _skillPoints' = 1 ]_vars

\* C5's case: in a fresh session rf_entry, a neighbour of the root that costs
\* 1, has just been activated, and both subscribers were notified.
C5_Witness ==
  /\ last = [op |-> "activate", arg |-> "rf_entry", ret |-> TRUE]
  /\ _activeNodes = {"start", "rf_entry"}
  /\ _skillPoints = 1
  /\ _computedStats.fireRateBonus = DOUBLE[8]
  /\ Len(calls) = 2

\* C6: isReachable(id) is true if and only if id is not active and at least
\* one neighbour of id (in either direction of a declared connection) is
\* active; neither the balance nor the cost of the node enters into it.
C6_IsReachableIffActiveNeighbour ==
  \A id \in CatalogIds \cup UnknownIds :
    isReachable(id) <=> /\ id \notin _activeNodes
                        /\ id \in CatalogIds
                        /\ \E n \in Neighbours[id] : n \in _activeNodes

\* C6's case: a node is reachable though it costs more than the balance,
\* another is a neighbour of an active node but active itself, and a third
\* has no active neighbour.
C6_Witness ==
  /\ \E id \in CatalogIds :
       isReachable(id) /\ NODE_MAP[id].cost > _skillPoints
  /\ \E id \in _activeNodes \ {"start"} :
       ~isReachable(id) /\ \E n \in Neighbours[id] : n \in _activeNodes
  /\ \E id \in CatalogIds \ Near(_activeNodes) : ~isReachable(id)

\* C7: canActivate(id) is true if and only if isReachable(id) is true and
\* the balance is at least the cost of id; so a reachable node is drawn
\* either as available or as reachable but too expensive, never both, and
\* no active node can be activated.
C7_CanActivateIffReachableAndAffordable ==
  \A id \in CatalogIds \cup UnknownIds :
    /\ canActivate(id) <=> (isReachable(id) /\ _skillPoints >= NODE_MAP[id].cost)
    /\ isReachable(id) =>
         /\ drawNode(id) \in {"avail", "reachable"}
         /\ drawNode(id) = "avail" <=> _skillPoints >= NODE_MAP[id].cost
    /\ isActive(id) => (~canActivate(id) /\ drawNode(id) = "active")

\* C7's case: one reachable node costs exactly the balance and can be
\* activated, another costs more and cannot.
C7_Witness ==
  /\ \E id \in CatalogIds :
       canActivate(id) /\ NODE_MAP[id].cost = _skillPoints
  /\ \E id \in CatalogIds :
       isReachable(id) /\ ~canActivate(id)

\* The text after the prefix of a code, the white space at the ends of the
\* code apart.
Payload(text) == slice(trim(text), Len(PREFIX))

\* A code with the prefix (in any case, white space at its ends apart) and a
\* payload atob takes.
WellFormed(text) ==
  /\ startsWith(toUpperCase(trim(text)), PREFIX)
  /\ ~atob(Payload(text)).throws

\* C8: for every set S of catalog node ids that holds the root and is
\* root-connected, the set of all nodes among them,
\* decodeBuild(encodeBuild(S)) is not null and is S.
C8_RoundTrip ==
  (phase = "decoded" /\ RootConnected(given)) =>
    (result.kind = "set" /\ result.nodes = given)

\* C8's case: the set of all nodes was encoded and the code decoded.
C8_Witness ==
  /\ phase = "decoded"
  /\ given = CatalogIds
  /\ Len(codeText) = Len(PREFIX) + 12
  /\ result = ReturnSet(NODE_IDS)

\* C9: for a code with the prefix and a payload atob takes, decodeBuild
\* forms the candidate set, the nodes whose bit is set and the root (also
\* when the bit of the root is clear), and returns it if and only if every
\* member is joined to the root by a path of members; otherwise it returns
\* null.  What the set would cost is not looked at.
C9_DecodeReturnsCandidateIffConnected ==
  (phase = "decoded" /\ WellFormed(codeText)) =>
    LET candidate == BitsOf(atob(Payload(codeText)).binary) \cup {"start"}
    IN  IF RootComponent(candidate, Neighbours) = candidate
        THEN result.kind = "set" /\ result.nodes = candidate
        ELSE result = ReturnNull

\* C9's cases: a code in which the bit of the root is clear was decoded to a
\* set that holds the root and costs more than any balance of the session;
\* or a code with a well-formed payload was decoded to null.
C9_Witness ==
  /\ phase = "decoded"
  /\ WellFormed(codeText)
  /\ "start" \notin BitsOf(atob(Payload(codeText)).binary)
  /\ result = ReturnSet(<<"rf_entry", "rf_s1", "rf_s2", "start">>)

\* C10 as stated: decodeBuild never throws, and it returns null for every
\* input that does not begin with 'NEXUS-' (in any case) and for every
\* payload atob does not take.
C10_NullWithoutPrefix ==
  phase = "decoded" =>
    /\ result.kind \in {"set", "null"}
    /\ ~startsWith(toUpperCase(codeText), PREFIX) => result = ReturnNull
    /\ ( /\ startsWith(toUpperCase(codeText), PREFIX)
         /\ atob(slice(codeText, Len(PREFIX))).throws ) => result = ReturnNull

\* C10, amended: decodeBuild never throws, and it returns null for every
\* input that, the white space at its ends removed, does not begin with
\* 'NEXUS-' (in any case), and for every payload atob does not take.
C10_NullWithoutPrefixAfterTrim ==
  phase = "decoded" =>
    /\ result.kind \in {"set", "null"}
    /\ ~startsWith(toUpperCase(trim(codeText)), PREFIX) => result = ReturnNull
    /\ ( /\ startsWith(toUpperCase(trim(codeText)), PREFIX)
         /\ atob(Payload(codeText)).throws ) => result = ReturnNull

\* C10's case: a code with the prefix whose payload atob does not take was
\* decoded, to null.
C10_Witness ==
  /\ phase = "decoded"
  /\ startsWith(toUpperCase(trim(codeText)), PREFIX)
  /\ atob(Payload(codeText)).throws
  /\ result = ReturnNull

\* C11: an import whose text decodeBuild rejects (wrong prefix, invalid
\* encoding or disconnected bitmask) leaves the session untouched: the active
\* set, the balance and the snapshot are as before and no subscriber is
\* notified; an import reaches loadBuild only with a set decodeBuild
\* returned, and loads that set.
C11_FailedImportChangesNothing ==
  [][ (last'.op = "import" /\ last'.arg # <<>>)
      => LET nodes == Decoded(last'.arg)
         IN  /\ nodes.kind # "set"
                  => /\ UNCHANGED <<_activeNodes, _activeOrder, _skillPoints,
                                    _computedStats>>
                     /\ calls' = <<>>
                     /\ last'.ret = "INVALID!"
             /\ last'.ret = "LOADED!"
                  => /\ nodes.kind = "set"
                     /\ _activeNodes' = nodes.nodes ]_vars

\* C11's case: with rf_entry active, one point left and both subscribers
\* registered, the code of the disconnected set {start, rf_s1} has just been
\* imported: it was refused and nobody was notified.
C11_Witness ==
  /\ last = [op |-> "import", arg |-> encodeBuild({"start", "rf_s1"}),
             ret |-> "INVALID!"]
  /\ _activeNodes = {"start", "rf_entry"}
  /\ _skillPoints = 1
  /\ Len(_listeners) = 2
  /\ calls = <<>>

\* C12: for a fixed active set the computed modifiers (every sum, every
\* product and the behaviour tags) are the same whatever the order in which
\* the nodes are visited: recomputeStats gives, for the Set in its order of
\* insertion, what it gives for the same nodes visited in catalog order.
C12_OrderIndependent ==
  phase = "composed" => _computedStats = recomputeStats(Order(_activeNodes))

\* The reference composition of a set of nodes: the effect values of one
\* stat over the nodes of the set, taken in catalog order, folded from a
\* starting value by an operation.
RECURSIVE FoldEffects(_, _, _, _, _)
FoldEffects(product, acc, effects, stat, i) ==
  IF i > Len(effects) THEN acc
  ELSE LET value == DOUBLE[effects[i].value]
       IN  FoldEffects(product,
                       IF effects[i].stat # stat THEN acc
                       ELSE IF product THEN FMul(acc, value)
                       ELSE FAdd(acc, value),
                       effects, stat, i + 1)

RECURSIVE FoldNodes(_, _, _, _, _)
FoldNodes(product, acc, order, stat, i) ==
  IF i > Len(order) THEN acc
  ELSE LET nxt == FoldEffects(product, acc, NODE_MAP[order[i]].effects,
                              stat, 1)
       IN  IF Evaluated(nxt) THEN FoldNodes(product, nxt, order, stat, i + 1)
           ELSE acc

CatalogOrder(S) == SelectSeq(NODE_IDS, LAMBDA id : id \in S)

SumOf(S, stat) == FoldNodes(FALSE, DOUBLE[0], CatalogOrder(S), stat, 1)

ProductOf(S, stat) == FoldNodes(TRUE, DOUBLE[100], CatalogOrder(S), stat, 1)

BehavioursOf(S) ==
  UNION {Range(NODE_MAP[id].behaviors) : id \in S \cap CatalogIds}

ADDITIVE == (DOMAIN createDefaultStats \ MULTIPLICATIVE) \ {"behaviors"}

\* C13: the composed modifiers are the reference composition of the active
\* set: each additive stat is the sum, from 0, of its effect values over the
\* active nodes, each multiplicative stat the product, from 1, of its effect
\* values, behaviors the union of the behaviour tags; for {start} that is
\* all sums 0, all products 1 and no behaviour.
C13_EqualsReference ==
  phase = "composed"
    => /\ \A stat \in ADDITIVE :
            _computedStats[stat] = SumOf(_activeNodes, stat)
       /\ \A stat \in MULTIPLICATIVE :
            _computedStats[stat] = ProductOf(_activeNodes, stat)
       /\ _computedStats.behaviors = BehavioursOf(_activeNodes)
       /\ _activeNodes = {"start"}
            => /\ \A stat \in ADDITIVE : _computedStats[stat] = DOUBLE[0]
               /\ \A stat \in MULTIPLICATIVE :
                    _computedStats[stat] = DOUBLE[100]
               /\ _computedStats.behaviors = {}

\* C14: whatever nodes are active, the composed armorFlat is at most 0.85,
\* and the clamp is one final pass over the sum of all the active nodes: the
\* snapshot holds that sum when it is at most 0.85, and 0.85 otherwise.
C14_ArmorCapped ==
  phase = "composed"
    => LET summed == FoldNodes(FALSE, DOUBLE[0], _activeOrder, "armorFlat", 1)
       IN  /\ ~FLess(DOUBLE[85], _computedStats.armorFlat)
           /\ _computedStats.armorFlat =
                 IF FLess(DOUBLE[85], summed) THEN DOUBLE[85] ELSE summed

\* C14's case: every node of the catalog is active, the two that give armor
\* (bw_s2, 0.04, and bw_s4, 0.08) among them, and the snapshot was composed.
C14_Witness ==
  /\ phase = "composed"
  /\ _activeNodes = CatalogIds
  /\ {id \in CatalogIds :
        \E k \in 1..Len(NODE_MAP[id].effects) :
          NODE_MAP[id].effects[k].stat = "armorFlat"} = {"bw_s2", "bw_s4"}
  /\ _computedStats.armorFlat = FAdd(DOUBLE[4], DOUBLE[8])

\* C15: loadBuild(S), whatever the session state, makes S the active set
\* (no node of the previous active set stays unless it is in S), sets the
\* balance to 0, recomputes the snapshot from S and notifies the
\* subscribers.
C15_LoadBuildReplaces ==
  [][ last'.op = "loadBuild"
      => /\ _activeNodes' = last'.arg
         /\ (_activeNodes \ last'.arg) \cap _activeNodes' = {}
         /\ _skillPoints' = 0
         /\ Range(_activeOrder') = last'.arg
         /\ _computedStats' = recomputeStats(_activeOrder')
         /\ AllNotified ]_vars

\* C15's case: loadBuild was given {rf_entry} alone: the root, which was
\* active, is no longer, the balance is 0, the snapshot is the one of
\* rf_entry and both subscribers were told.
C15_Witness ==
  /\ last = [op |-> "loadBuild", arg |-> {"rf_entry"}, ret |-> "void"]
  /\ _activeNodes = {"rf_entry"}
  /\ _skillPoints = 0
  /\ _computedStats = recomputeStats(<<"rf_entry">>)
  /\ Len(calls) = 2

\* C16: reset(), whatever the session state, gives the state of a fresh
\* session: only the root active, balance 2, every sum 0, every product 1,
\* no behaviour; there the nodes that are reachable are exactly the direct
\* neighbours of the root.
C16_ResetGivesFreshSession ==
  [][ last'.op = "reset"
      => /\ _activeNodes' = {"start"}
         /\ _skillPoints' = 2
         /\ \A stat \in ADDITIVE : _computedStats'[stat] = DOUBLE[0]
         /\ \A stat \in MULTIPLICATIVE : _computedStats'[stat] = DOUBLE[100]
         /\ _computedStats'.behaviors = {}
         /\ \A id \in CatalogIds \cup UnknownIds :
              isReachable(id)' <=> id \in Neighbours["start"] ]_vars

\* C16's case: reset has just run and both subscribers were told: the root
\* alone is active, the balance is 2, rf_entry (a neighbour of the root) is
\* reachable and rf_s1 (two edges away) is not.
C16_Witness ==
  /\ last.op = "reset"
  /\ _activeNodes = {"start"}
  /\ _skillPoints = 2
  /\ Len(calls) = 2
  /\ isReachable("rf_entry") /\ ~isReachable("rf_s1")

\* C17, as claimed: after a successful activate(id), isReachable(n) is true
\* for every neighbour n of id in the adjacency index.
C17_EveryNeighbourReachable ==
  [][ (last'.op = "activate" /\ last'.ret = TRUE)
      => \A n \in _adjacency'[last'.arg] : isReachable(n)' ]_vars

\* C17, amended: after a successful activate(id), isReachable(n) is true for
\* every neighbour n of id in the adjacency index that is not active itself
\* (isReachable is false for an active node, and id has an active neighbour,
\* the one that made it reachable).
C17_InactiveNeighboursReachable ==
  [][ (last'.op = "activate" /\ last'.ret = TRUE)
      => /\ \A n \in _adjacency'[last'.arg] \ _activeNodes' : isReachable(n)'
         /\ \E n \in _adjacency'[last'.arg] \cap _activeNodes' :
              ~isReachable(n)' ]_vars

\* C17's case: rf_entry has just been activated: its neighbours rf_s1 and
\* rf_s2 are reachable, and its neighbour the root, which is active, is not.
C17_Witness ==
  /\ last = [op |-> "activate", arg |-> "rf_entry", ret |-> TRUE]
  /\ _adjacency["rf_entry"] = {"start", "rf_s1", "rf_s2"}
  /\ isReachable("rf_s1") /\ isReachable("rf_s2")
  /\ isActive("start") /\ ~isReachable("start")

\* C18: after every change of the active set (a successful activate, a
\* loadBuild, a reset) the snapshot is the composition of the active set as
\* it now is, and it is a new value: neither the ComputedStats object nor
\* the Set in its behaviors field is one that existed before the operation.
C18_SnapshotRecomputedAndFresh ==
  [][ ( \/ last'.op = "activate" /\ last'.ret = TRUE
        \/ last'.op \in {"loadBuild", "reset"} )
      => /\ Range(_activeOrder') = _activeNodes'
         /\ _computedStats' = recomputeStats(_activeOrder')
         /\ snapshot'.stats \notin 1..created
         /\ snapshot'.behaviors \notin 1..created
         /\ snapshot'.stats \in 1..created'
         /\ snapshot'.behaviors \in 1..created' ]_vars

\* C18's case: rf_entry and rf_s1 were activated in a fresh session: the
\* snapshot is the third that was created, after the one of the fresh
\* session and the one of rf_entry, and it holds the sum of both nodes.
C18_Witness ==
  /\ last = [op |-> "activate", arg |-> "rf_s1", ret |-> TRUE]
  /\ _activeOrder = <<"start", "rf_entry", "rf_s1">>
  /\ created = 3
  /\ snapshot = [stats |-> 3, behaviors |-> 3]
  /\ _computedStats.fireRateBonus = FAdd(DOUBLE[8], DOUBLE[6])

\* The active nodes the catalog has, in the order of their insertion.
KnownOrder == SelectSeq(_activeOrder, LAMBDA id : id \in CatalogIds)

\* C19, as claimed: for an id the catalog does not have, isActive,
\* isReachable and canActivate are false, activate returns false and changes
\* nothing, and such an id in the active set adds nothing to the snapshot.
C19_UnknownIdsAreFalse ==
  /\ [](\A id \in UnknownIds :
          ~isActive(id) /\ ~isReachable(id) /\ ~canActivate(id))
  /\ [](_computedStats = recomputeStats(KnownOrder))
  /\ [][ (last'.op = "activate" /\ last'.arg \in UnknownIds)
          => /\ last'.ret = FALSE
             /\ UNCHANGED <<_activeNodes, _skillPoints, _computedStats>>
             /\ calls' = <<>> ]_vars

\* C19, amended: for an id the catalog does not have, isReachable and
\* canActivate are false and activate returns false and changes nothing;
\* isActive is false unless loadBuild was given the id, which is then in the
\* active set and isActive true; such an id adds nothing to the snapshot.
C19_UnknownIdsAreFalseUnlessLoaded ==
  /\ [](\A id \in UnknownIds :
          /\ isActive(id) <=> id \in _activeNodes
          /\ ~isReachable(id)
          /\ ~canActivate(id))
  /\ [](_computedStats = recomputeStats(KnownOrder))
  /\ [][ (last'.op = "activate" /\ last'.arg \in UnknownIds)
          => /\ last'.ret = FALSE
             /\ UNCHANGED <<_activeNodes, _skillPoints, _computedStats>>
             /\ calls' = <<>> ]_vars

\* C19's case: loadBuild was given start, rf_entry and legacy_node, an id
\* the catalog does not have, and activate(legacy_node) has just returned
\* false: the id is active, not reachable, and the snapshot is the one of
\* start and rf_entry.
C19_Witness ==
  /\ last = [op |-> "activate", arg |-> "legacy_node", ret |-> FALSE]
  /\ _activeNodes = {"start", "rf_entry", "legacy_node"}
  /\ isActive("legacy_node")
  /\ ~isReachable("legacy_node") /\ ~canActivate("legacy_node")
  /\ _computedStats = recomputeStats(<<"start", "rf_entry">>)
  /\ calls = <<>>

\* C20: a successful activate, and every addSkillPoints, loadBuild and
\* reset, calls every registered subscriber exactly once, within the
\* operation, in the order of registration, and each callback reads the
\* state the operation has produced.
C20_SubscribersNotifiedInOrder ==
  [][ ( \/ last'.op = "activate" /\ last'.ret = TRUE
        \/ last'.op \in {"addSkillPoints", "loadBuild", "reset"} )
      => /\ Len(calls') = Len(_listeners)
         /\ \A i \in 1..Len(_listeners) :
              /\ calls'[i].fn = _listeners[i]
              /\ calls'[i].skillPoints = _skillPoints'
              /\ calls'[i].activeNodes = _activeNodes' ]_vars

\* C20's case: one point was granted in a fresh session with both
\* subscribers registered: the redraw of the tree was called first, the
\* badge second, and both read the balance 3.
C20_Witness ==
  /\ last = [op |-> "addSkillPoints", arg |-> 1, ret |-> "void"]
  /\ _listeners = << "treeUI", "spBadge" >>
  /\ calls = << [fn |-> "treeUI", skillPoints |-> 3,
                 activeNodes |-> {"start"}],
                [fn |-> "spBadge", skillPoints |-> 3,
                 activeNodes |-> {"start"}] >>

\* C21: addSkillPoints(n) changes the balance alone, to balance + n: the
\* active set is as before and the snapshot is not recomputed (it is the
\* object it was, with the values it had); the subscribers are notified.
C21_AddSkillPointsChangesBalanceOnly ==
  [][ last'.op = "addSkillPoints"
      => /\ _skillPoints' = _skillPoints + last'.arg
         /\ UNCHANGED <<_activeNodes, _activeOrder, _adjacency>>
         /\ UNCHANGED <<_computedStats, created, snapshot>>
         /\ AllNotified ]_vars

\* C21's case: with rf_entry and rf_s1 active and nothing left, two points
\* were granted: the balance is 2, the snapshot is still the third object
\* (the one the activation of rf_s1 made) and both subscribers were told.
C21_Witness ==
  /\ last = [op |-> "addSkillPoints", arg |-> 2, ret |-> "void"]
  /\ _activeOrder = <<"start", "rf_entry", "rf_s1">>
  /\ _skillPoints = 2
  /\ created = 3 /\ snapshot = [stats |-> 3, behaviors |-> 3]
  /\ _computedStats = recomputeStats(_activeOrder)
  /\ Len(calls) = 2

\* C22: the active set only grows across every step that is not a reset or
\* a loadBuild: after an activate, successful or not, and after an
\* addSkillPoints, every node that was active still is.
C22_ActiveSetGrows ==
  [][ last'.op \notin {"reset", "loadBuild"}
      => _activeNodes \subseteq _activeNodes' ]_vars

\* C22's case: rf_s1 has just been activated after rf_entry: rf_entry and
\* the root are still active.
C22_Witness ==
  /\ last = [op |-> "activate", arg |-> "rf_s1", ret |-> TRUE]
  /\ _activeNodes = {"start", "rf_entry", "rf_s1"}
  /\ _activeOrder[2] = "rf_entry"

\* C23: the balance is a non-negative integer in every state of a session,
\* whatever integers addSkillPoints is given.
C23_BalanceNeverNegative == _skillPoints \in Nat

\* C24: the store is the only writer of the snapshot: in every state of a
\* running game, whatever the level-up screen has applied to the world, the
\* object computedStats returns holds the composition of the active set.
C24_EngineIsOnlyWriter ==
  game.worldStats # 0 => _computedStats = recomputeStats(_activeOrder)

\* The costs of the nodes of order, from index i on, summed.
RECURSIVE Spent(_, _)
Spent(order, i) ==
  IF i > Len(order) THEN 0 ELSE NODE_MAP[order[i]].cost + Spent(order, i + 1)

\* C29: without loadBuild, the balance and the costs of the active nodes add
\* up to the 2 points of a fresh session and every amount granted since the
\* last reset; a node is paid for once: activate of a node that is already
\* active returns false and leaves the balance as it was.
C29_CurrencyConserved ==
  /\ [](_skillPoints + Spent(_activeOrder, 1) = InitialSkillPoints + granted)
  /\ [][ (last'.op = "activate" /\ last'.arg \in _activeNodes)
         => (last'.ret = FALSE /\ _skillPoints' = _skillPoints) ]_vars

\* C29's case: rf_entry and rf_s1 were bought, three points were granted in
\* all, and rf_entry has just been tapped again: the balance is still
\* 2 + 3 - 2.
C29_Witness ==
  /\ last = [op |-> "activate", arg |-> "rf_entry", ret |-> FALSE]
  /\ _activeNodes = {"start", "rf_entry", "rf_s1"}
  /\ granted = 3
  /\ _skillPoints = 3

\* a declares b: b is in the connections of a.
Declares(a, b) == b \in Range(NODE_MAP[a].connections)

\* The index the catalog states: the neighbours of a are the nodes a
\* declares and the nodes that declare a.
DeclaredIndex ==
  [a \in CatalogIds |-> {b \in CatalogIds : Declares(a, b) \/ Declares(b, a)}]

\* C25: the adjacency index of the session is symmetric and is what the
\* catalog says and nothing else: b is a neighbour of a iff a is one of b iff
\* either declares the other; it is the index buildAdjacency returns,
\* whatever sessions came before.
C25_AdjacencySymmetricAndPure ==
  /\ DOMAIN _adjacency = CatalogIds
  /\ \A a \in CatalogIds :
       \A b \in _adjacency[a] : b \in CatalogIds /\ a \in _adjacency[b]
  /\ _adjacency = DeclaredIndex
  /\ _adjacency = buildAdjacency

\* C25's case: the index was rebuilt by a reset after a session in which
\* nodes were activated; the keystone rf_key, which declares no connection,
\* has the nodes that declare it as its neighbours.
C25_Witness ==
  /\ last.op = "reset"
  /\ created > 2
  /\ NODE_MAP["rf_key"].connections = <<>>
  /\ _adjacency["rf_key"] # {}
  /\ \A n \in _adjacency["rf_key"] : Declares(n, "rf_key")

\* The places of the catalog.
Places == 1..Len(ALL_NODES)

\* Every node of the catalog is joined to 'start' by connections taken in
\* either direction.
CatalogConnected == RootComponent(CatalogIds, Neighbours) = CatalogIds

\* C26: in the catalog exactly one node, 'start', has cost 0, and exactly
\* one, 'start', has tier 'start'; every other node costs at least 1; no id
\* occurs twice; every connection names a node of the catalog, so that the
\* index a session builds has the ids of the catalog as its keys and no
\* other; and every node is joined to 'start' by connections taken in either
\* direction.
C26_CatalogInvariant ==
  /\ {ALL_NODES[i].id : i \in {k \in Places : ALL_NODES[k].cost = 0}}
       = {"start"}
  /\ {ALL_NODES[i].id : i \in {k \in Places : ALL_NODES[k].tier = "start"}}
       = {"start"}
  /\ \A i \in Places : ALL_NODES[i].id # "start" => ALL_NODES[i].cost >= 1
  /\ \A i, j \in Places : ALL_NODES[i].id = ALL_NODES[j].id => i = j
  /\ \A i \in Places : Range(ALL_NODES[i].connections) \subseteq CatalogIds
  /\ DOMAIN _adjacency = {ALL_NODES[i].id : i \in Places}
  /\ CatalogConnected

\* C26's case: the whole catalog was encoded and its code decoded: the
\* traversal from 'start' reached every one of its nodes, the keystones,
\* which declare nothing, among them.
C26_Witness ==
  /\ phase = "decoded"
  /\ given = CatalogIds
  /\ result.kind = "set"
  /\ result.nodes = {ALL_NODES[i].id : i \in Places}
  /\ Cardinality(result.nodes) = Len(ALL_NODES)
  /\ \E k \in Keystones : NODE_MAP[k].connections = <<>>

\* No id occurs twice in log.
Distinct(log) == \A i, j \in 1..Len(log) : log[i] = log[j] => i = j

\* C27: the operations end.  Each of them but validateConnectivity is a
\* sequence of statements and loops over a Set, a Map or the catalog, and is
\* an operator here; the while loop of validateConnectivity, inside
\* decodeBuild, ends for every set it is given: no id is pushed on the queue
\* twice, the call returns, and what it returns is what the operator
\* validateConnectivity gives.
C27_TraversalTerminates ==
  /\ <>(bfs.pc = "done")
  /\ [](Distinct(bfs.pushed) /\ Range(bfs.pushed) \subseteq CatalogIds)
  /\ [](bfs.pc = "done" => bfs.ret = validateConnectivity(bfs.active))

\* C27's case: the traversal of the whole catalog has returned true, having
\* pushed each of its nodes once.
C27_Witness ==
  /\ bfs.pc = "done"
  /\ bfs.active = CatalogIds
  /\ bfs.ret
  /\ Len(bfs.pushed) = Len(ALL_NODES)
  /\ Range(bfs.pushed) = CatalogIds

\* The nodes of S the engine can have active when those of T are: T, and
\* the nodes of S that isReachable accepts one after the other (an id of
\* the index that is not active and has an active neighbour in the index),
\* the balance being whatever grants have made it.
RECURSIVE EngineGrow(_, _)
EngineGrow(T, S) ==
  LET next == {n \in S \ T :
                 Has(_adjacency, n) /\ \E m \in _adjacency[n] : m \in T}
  IN  IF next = {} THEN T ELSE EngineGrow(T \cup next, S)

\* S is an active set a fresh session can come to by activate and
\* addSkillPoints.
EngineBuilds(S) == EngineGrow({"start"}, S) = S

\* C28: the engine and the codec agree on which sets are valid.  Whatever
\* the session holds, a set it came to by activations or a build decodeBuild
\* returned and the import loaded, the set is one the engine can build from
\* the root by activations, its code is accepted by decodeBuild, and
\* decoding the code gives the set back.
C28_EngineAndCodecAgree ==
  /\ EngineBuilds(_activeNodes)
  /\ decodeBuild(encodeBuild(_activeNodes)).kind = "set"
  /\ decodeBuild(encodeBuild(_activeNodes)).nodes = _activeNodes

\* C28's case: a decoded build of six nodes with the keystone rf_key was
\* loaded by the import.
C28_Witness ==
  /\ last.op = "import"
  /\ last.ret = "LOADED!"
  /\ "rf_key" \in _activeNodes
  /\ Cardinality(_activeNodes) = 6

\* The bytes of a payload as encodeBuild would have written them: BYTE_COUNT
\* bytes, a missing byte 0, the bits past the last node of the catalog
\* clear.
Canonical(bytes) ==
  [i \in 1..BYTE_COUNT |->
     IF i > Len(bytes) THEN 0
     ELSE IF i < BYTE_COUNT THEN bytes[i]
     ELSE bytes[i] % Pow2(Len(NODE_IDS) - 8 * (BYTE_COUNT - 1))]

\* C30: decodeBuild does not look at the length of the payload.  The code
\* that is the prefix alone decodes to the set of the root; and any code
\* with the prefix and a payload atob takes decodes to what the code of
\* BYTE_COUNT bytes does in which the bytes it lacks are 0, the bits past
\* the last node are clear and the bytes past BYTE_COUNT are gone.
C30_DecoderIsLenient ==
  (phase = "decoded" /\ WellFormed(codeText)) =>
    /\ Payload(codeText) = <<>> => result = ReturnSet(<<"start">>)
    /\ result = decodeBuild(
                  PREFIX \o btoa(Canonical(atob(Payload(codeText)).binary)))

\* C30's case: a code of seven bytes whose bits past the last node are set
\* was decoded to the root and rf_entry, as the code encodeBuild writes for
\* that set is: two codes, one set.
C30_Witness ==
  /\ phase = "decoded"
  /\ codeText = PREFIX \o btoa(<<3, 0, 0, 0, 0, 0, 254>>)
  /\ result = ReturnSet(<<"start", "rf_entry">>)
  /\ codeText # encodeBuild(result.nodes)
  /\ decodeBuild(encodeBuild(result.nodes)) = result

====
